---- MODULE Spec2Model ----
(***************************************************************************)
(* A model of the ConvertKit analytics services:                           *)
(*   - services/convertkit_service.py : the remote API gateway             *)
(*     (rate-limited request, cursor pagination, count-only fast path);    *)
(*   - services/background_tasks.py   : the file-backed background task    *)
(*     runner (task ids, status records, worker thread, polling);          *)
(*   - utils/date_utils.py            : the before/after period windows;   *)
(*   - the tag resolution of the gateway (get_all_tags, _find_closest_tag);*)
(*   - services/report_service.py and app.py generate_report : the report  *)
(*     builder and its arithmetic;                                         *)
(*   - services/open_rate_service.py  : the per-tag and the overall        *)
(*     open-rate engine;                                                   *)
(*   - app.py                         : the client-profile store.          *)
(* Each component has its own specification (SpecGateway, SpecTasks,       *)
(* SpecDates, SpecTags, SpecReport, SpecRate, SpecRateRemote, SpecOverall, *)
(* SpecProfiles); the variables of the other components stay at their      *)
(* initial value.                                                          *)
(***************************************************************************)
EXTENDS Integers, Sequences, FiniteSets, TLC

(***************************************************************************)
(* Bounds of the model.                                                    *)
(***************************************************************************)
\* pages a remote listing is served as
MaxPages == 2
\* records on one page of a listing
MaxPageLen == 2
\* largest value of the total_count metadata
MaxTotal == 4
\* calendar days the broadcast window inputs range over (0..MaxDay)
MaxDay == 1
\* clock ticks per calendar day (tick 0 is 00:00:00)
TicksPerDay == 2

\* tasks started in one run
MaxTasks == 2
\* last tick of the wall clock
MaxClock == 2
\* clock ticks per second (the task id's timestamp has one-second resolution)
TicksPerSecond == 2

\* largest small value of the counts the remote answers the report builder with
MaxCount == 3

\* broadcasts in the window
MaxBroadcasts == 2

\* tags in the remote tag list
MaxTags == 2

\* the reference dates range over the years 2023 .. 2023 + MaxYearOffset
MaxYearOffset == 1

(***************************************************************************)
(* Program constants (utils/constants.py).                                 *)
(***************************************************************************)
PER_PAGE_PARAM == 1000
MAX_RETRIES == 3
RETRY_DELAY == 1
BEFORE_PERIOD_DAYS == 60
AFTER_PERIOD_START_DAYS == 45
AFTER_PERIOD_DAYS == 60
DEFAULT_FACEBOOK_TAG == 4155625
DEFAULT_CREATOR_TAG == 4090509
DEFAULT_SPARKLOOP_TAG == 5023500

\* the name variants of each category, in matching order; a string is the
\* sequence of its characters
TAG_VARIATIONS ==
    [facebook |->
        << <<"f", "a", "c", "e", "b", "o", "o", "k", " ", "a", "d", "s">>,
           <<"f", "a", "c", "e", "b", "o", "o", "k", " ", "a", "d">>,
           <<"f", "b", " ", "a", "d", "s">>,
           <<"f", "b", " ", "a", "d">>,
           <<"f", "a", "c", "e", "b", "o", "o", "k">>,
           <<"p", "a", "i", "d", " ", "a", "d", "s">>,
           <<"p", "a", "i", "d">> >>,
     creator |->
        << <<"c", "r", "e", "a", "t", "o", "r", " ", "n", "e", "t", "w", "o", "r", "k">>,
           <<"c", "r", "e", "a", "t", "o", "r">>,
           <<"n", "e", "t", "w", "o", "r", "k">>,
           <<"c", "n">>,
           <<"a", "m", "b", "a", "s", "s", "a", "d", "o", "r">> >>,
     sparkloop |->
        << <<"s", "p", "a", "r", "k", "l", "o", "o", "p">>,
           <<"s", "p", "a", "r", "k", " ", "l", "o", "o", "p">>,
           <<"s", "p", "a", "r", "k">>,
           <<"l", "o", "o", "p">>,
           <<"r", "e", "f", "e", "r", "r", "a", "l">>,
           <<"r", "e", "f", "e", "r">> >>]

(***************************************************************************)
(* Gateway state.                                                          *)
(***************************************************************************)
VARIABLES
    remote,       \* the remote platform's data: the pages of its listing and total_count
    op,           \* the gateway operation in progress ("idle" when none)
    args,         \* its arguments
    pc,           \* position: idle, get, sleep, handle, done
    attempt,      \* loop variable of _rate_limited_request
    response,     \* the last response of requests.get
    params,       \* the query parameters of the request (per_page, after)
    data,         \* the last decoded 200 body (local variable data)
    acc,          \* the list being accumulated (subscribers / broadcasts)
    result,       \* the operation's return value
    reqStatuses,  \* history: statuses answered to the GETs of the current request
    reqSleeps,    \* history: the backoff sleeps of the current request, in order
    pageLog,      \* history: one entry per finished rate-limited request of the operation
    obs           \* history: results of finished get_subscribers calls on this remote

gwVars == <<remote, op, args, pc, attempt, response, params, data, acc, result,
            reqStatuses, reqSleeps, pageLog, obs>>

(***************************************************************************)
(* Background task runner state.                                           *)
(***************************************************************************)
VARIABLES
    clock,        \* the wall clock (datetime.now()), in ticks
    calls,        \* one entry per generate_task_id invocation: client, id, worker position, outcome
    store,        \* the status store: the file task_results/<task_id>.json of each task id
    history,      \* history: per task id, the statuses written to its file, in order
    lastWritten   \* history: per invocation, the last record its worker wrote

taskVars == <<clock, calls, store, history, lastWritten>>

(***************************************************************************)
(* Period derivation state (utils/date_utils.py).                          *)
(***************************************************************************)
VARIABLES
    reference,    \* the reference date handed to calculate_period_dates, as 'YYYY-MM-DD'
    periods       \* what calculate_period_dates returned (NoPeriods before the call)

dateVars == <<reference, periods>>

(***************************************************************************)
(* Tag resolution state (ConvertKitService.get_all_tags, _find_closest_tag)*)
(***************************************************************************)
VARIABLES
    tags,         \* the remote platform's tag list, in the order it is served
    found,        \* the last _find_closest_tag call: its arguments and the id it returned
    all_tags      \* the last get_all_tags call: the request's outcome and the dict it returned

tagVars == <<tags, found, all_tags>>

(***************************************************************************)
(* Report builder state (services/report_service.py, app.py).              *)
(***************************************************************************)
VARIABLES
    client_data,  \* the selected client's profile: start date and baseline count
    report_call   \* the last report builder call: handler, current_total, what it
                  \* caught, whether an exception left it, and what it returned

reportVars == <<client_data, report_call>>

(***************************************************************************)
(* Open-rate engine state (services/open_rate_service.py).                 *)
(***************************************************************************)
VARIABLES
    broadcasts,          \* what get_broadcasts answers for the window; each broadcast
                         \* with the listings its recipients and openers are served as
    tagged_subscribers,  \* what get_tagged_subscribers answers for the tag
    rate,                \* calculate_open_rate_by_tag: position, locals, return value
    engagement,          \* the remote platform's record of each broadcast of the
                         \* window: whom it was sent to and who opened it
    stats_responses,     \* the remote's response to the stats request of each
                         \* broadcast get_broadcasts answers for the window
    overall              \* calculate_overall_open_rate: position, locals, return value

rateVars == <<broadcasts, tagged_subscribers, rate, engagement, stats_responses, overall>>

(***************************************************************************)
(* Client-profile store state (app.py: CLIENT_DATA, client_data.json).     *)
(***************************************************************************)
VARIABLES
    CLIENT_DATA,       \* the module-level mapping from client name to profile
    client_data_file,  \* the file client_data.json: whether it exists, and its mapping
    session,           \* the signed session cookie: session['selected_client']
    last_request       \* history: the last request handled and what it did

profileVars == <<CLIENT_DATA, client_data_file, session, last_request>>

\* the state of the components added to the gateway and the task runner
calcVars == <<dateVars, tagVars, reportVars, rateVars, profileVars>>

vars == <<gwVars, taskVars, calcVars>>

(***************************************************************************)
(* Dates (utils/date_utils.py).  A date string 'YYYY-MM-DD' is the triple  *)
(* <<year, month, day>> of its fields; a datetime at midnight is its       *)
(* proleptic Gregorian ordinal (0001-01-01 is day 1), which is what        *)
(* timedelta arithmetic works on.                                          *)
(***************************************************************************)
IsLeap(y) == y % 4 = 0 /\ (y % 100 # 0 \/ y % 400 = 0)

DaysInMonth(y, m) ==
    IF m = 2 THEN (IF IsLeap(y) THEN 29 ELSE 28)
    ELSE IF m \in {4, 6, 9, 11} THEN 30 ELSE 31

\* days of the year before the first of month m
DaysBeforeMonth(y, m) ==
    <<0, 31, 59, 90, 120, 151, 181, 212, 243, 273, 304, 334>>[m]
        + (IF m > 2 /\ IsLeap(y) THEN 1 ELSE 0)

DaysBeforeYear(y) ==
    (y - 1) * 365 + ((y - 1) \div 4) - ((y - 1) \div 100) + ((y - 1) \div 400)

\* the fields of a date string name a day of the calendar
ValidDate(s) ==
    /\ s[1] >= 1
    /\ s[2] \in 1..12
    /\ s[3] >= 1
    /\ s[3] <= DaysInMonth(s[1], s[2])

\* datetime.strptime(s, '%Y-%m-%d') of a valid date string
strptime(s) == DaysBeforeYear(s[1]) + DaysBeforeMonth(s[1], s[2]) + s[3]

\* dt.strftime('%Y-%m-%d'): from the ordinal back to year, month and day,
\* by 400-, 100-, 4- and 1-year cycles
format_date(dt) ==
    LET n0   == dt - 1
        n400 == n0 \div 146097
        r400 == n0 % 146097
        n100 == r400 \div 36524
        r100 == r400 % 36524
        n4   == r100 \div 1461
        r4   == r100 % 1461
        n1   == r4 \div 365
        r1   == r4 % 365
        year == n400 * 400 + n100 * 100 + n4 * 4 + n1 + 1
        month == CHOOSE m \in 1..12 :
                    /\ DaysBeforeMonth(year, m) <= r1
                    /\ r1 < DaysBeforeMonth(year, m) + DaysInMonth(year, m)
    IN  IF n1 = 4 \/ n100 = 4
        THEN <<year - 1, 12, 31>>
        ELSE <<year, month, r1 - DaysBeforeMonth(year, month) + 1>>

\* the after window ends after_days past the reference date itself
calculate_period_dates_without_offset(paperboy_start_date, before_days, after_start_days, after_days) ==
    [before_start |-> format_date(paperboy_start_date - before_days),
     before_end   |-> format_date(paperboy_start_date),
     after_start  |-> format_date(paperboy_start_date + after_start_days),
     after_end    |-> format_date(paperboy_start_date + after_days),
     before_days  |-> before_days,
     after_days   |-> after_days]

calculate_period_dates(paperboy_start_date, before_days, after_start_days, after_days) ==
    LET before_start == paperboy_start_date - before_days
        before_end   == paperboy_start_date
        after_start  == paperboy_start_date + after_start_days
        after_end    == after_start + after_days
    IN  [before_start |-> format_date(before_start),
         before_end   |-> format_date(before_end),
         after_start  |-> format_date(after_start),
         after_end    |-> format_date(after_end),
         before_days  |-> before_days,
         after_days   |-> after_days]

NoPeriods == [before_days |-> 0 - 1]

ReferenceDays == {1, 9, 28, 29, 30, 31}

ReferenceDates ==
    {s \in (2023..(2023 + MaxYearOffset)) \X (1..12) \X ReferenceDays : ValidDate(s)}

DatesIdle(s) ==
    /\ reference = s
    /\ periods = NoPeriods

(***************************************************************************)
(* Tag resolution (services/convertkit_service.py).                        *)
(***************************************************************************)
Categories == {"facebook", "creator", "sparkloop"}

\* tag names the remote may serve: "Facebook Ads", "FB Ad", "Facebook",
\* "facebook", "Paid Network", "Creator", "Spark Loop", "Newsletter"
TagNames ==
    { <<"F", "a", "c", "e", "b", "o", "o", "k", " ", "A", "d", "s">>,
      <<"F", "B", " ", "A", "d">>,
      <<"F", "a", "c", "e", "b", "o", "o", "k">>,
      <<"f", "a", "c", "e", "b", "o", "o", "k">>,
      <<"P", "a", "i", "d", " ", "N", "e", "t", "w", "o", "r", "k">>,
      <<"C", "r", "e", "a", "t", "o", "r">>,
      <<"S", "p", "a", "r", "k", " ", "L", "o", "o", "p">>,
      <<"N", "e", "w", "s", "l", "e", "t", "t", "e", "r">> }

\* the remote tag lists: up to MaxTags tags in every order, with ids in the
\* order of creation
TagLists ==
    UNION {[1..n -> TagNames] : n \in 0..MaxTags}

Tags(names) == [i \in 1..Len(names) |-> [id |-> 100 + i, name |-> names[i]]]

\* str.lower()
UpperToLower ==
    [c \in {"A", "B", "C", "D", "E", "F", "G", "H", "I", "J", "K", "L", "M", "N", "O", "P", "Q", "R", "S", "T", "U", "V", "W", "X", "Y", "Z"} |->
        CASE c = "A" -> "a"
          [] c = "B" -> "b"
          [] c = "C" -> "c"
          [] c = "D" -> "d"
          [] c = "E" -> "e"
          [] c = "F" -> "f"
          [] c = "G" -> "g"
          [] c = "H" -> "h"
          [] c = "I" -> "i"
          [] c = "J" -> "j"
          [] c = "K" -> "k"
          [] c = "L" -> "l"
          [] c = "M" -> "m"
          [] c = "N" -> "n"
          [] c = "O" -> "o"
          [] c = "P" -> "p"
          [] c = "Q" -> "q"
          [] c = "R" -> "r"
          [] c = "S" -> "s"
          [] c = "T" -> "t"
          [] c = "U" -> "u"
          [] c = "V" -> "v"
          [] c = "W" -> "w"
          [] c = "X" -> "x"
          [] c = "Y" -> "y"
          [] c = "Z" -> "z"]

lower(str) ==
    [i \in 1..Len(str) |-> IF str[i] \in DOMAIN UpperToLower THEN UpperToLower[str[i]] ELSE str[i]]

\* variation in tag_name
in(variation, str) ==
    \E i \in 0..(Len(str) - Len(variation)) : SubSeq(str, i + 1, i + Len(variation)) = variation

\* {tag['name'].lower(): tag for tag in tags}: a dict keeps a key at the
\* position of its first insertion and holds the value of its last one
RECURSIVE tag_map(_)
tag_map(tl) ==
    IF tl = <<>> THEN <<>>
    ELSE LET items == tag_map(SubSeq(tl, 1, Len(tl) - 1))
             tag   == tl[Len(tl)]
             key   == lower(tag.name)
         IN  IF \E i \in 1..Len(items) : items[i].tag_name = key
             THEN [i \in 1..Len(items) |->
                     IF items[i].tag_name = key THEN [tag_name |-> key, tag |-> tag]
                     ELSE items[i]]
             ELSE Append(items, [tag_name |-> key, tag |-> tag])

default_tags_all_facebook ==
    [tag_type \in Categories |-> DEFAULT_FACEBOOK_TAG]

default_tags ==
    [facebook  |-> DEFAULT_FACEBOOK_TAG,
     creator   |-> DEFAULT_CREATOR_TAG,
     sparkloop |-> DEFAULT_SPARKLOOP_TAG]

\* the pairs <<variation index, item index>> for which the inner test holds
Matches(items, tag_type) ==
    {h \in (1..Len(TAG_VARIATIONS[tag_type])) \X (1..Len(items)) :
        in(TAG_VARIATIONS[tag_type][h[1]], lower(items[h[2]].tag_name))}

\* the first match met with the items in the outer loop
FirstMatchByItem(hits) ==
    CHOOSE h \in hits : \A g \in hits : h[2] < g[2] \/ (h[2] = g[2] /\ h[1] <= g[1])

\* the first match the nested loops meet: variations outside, items inside
FirstMatch(hits) ==
    CHOOSE h \in hits : \A g \in hits : h[1] < g[1] \/ (h[1] = g[1] /\ h[2] <= g[2])

_find_closest_tag(tl, tag_type) ==
    LET items == tag_map(tl)
        hits  == Matches(items, tag_type)
    IN  IF hits # {}
        THEN items[FirstMatch(hits)[2]].tag.id
        ELSE default_tags[tag_type]

None == "None"

\* no call made yet
NoFound == [tag_type |-> None]
NoAllTags == [error |-> None]

TagsIdle(tl) ==
    /\ tags = tl
    /\ found = NoFound
    /\ all_tags = NoAllTags

_find_closest_tag_call ==
    /\ found = NoFound
    /\ all_tags = NoAllTags
    /\ \E tag_type \in Categories :
          found' = [tags |-> tags, tag_type |-> tag_type, id |-> _find_closest_tag(tags, tag_type)]
    /\ UNCHANGED <<tags, all_tags>>
    /\ UNCHANGED <<gwVars, taskVars, profileVars, dateVars, reportVars, rateVars>>

\* how the tags request ends: a status code, or an exception out of requests.get
TagsOutcomes ==
    {[raised |-> FALSE, status_code |-> c] : c \in {200, 429, 500}}
        \cup {[raised |-> TRUE, status_code |-> 0]}

get_all_tags(outcome) ==
    IF outcome.raised
    THEN [error |-> "str(e)", all_tags |-> <<>>, suggested |-> <<>>]
    ELSE IF outcome.status_code = 200
    THEN [all_tags  |-> tags,
          suggested |-> [tag_type \in Categories |-> _find_closest_tag(tags, tag_type)]]
    ELSE [error |-> "Failed to fetch tags", all_tags |-> <<>>, suggested |-> <<>>]

get_all_tags_call ==
    /\ found = NoFound
    /\ all_tags = NoAllTags
    /\ \E outcome \in TagsOutcomes :
          all_tags' = [outcome |-> outcome, result |-> get_all_tags(outcome)]
    /\ UNCHANGED <<tags, found>>
    /\ UNCHANGED <<gwVars, taskVars, profileVars, dateVars, reportVars, rateVars>>

\* the period derivation of the report builder: parse the client's start
\* date, derive both windows
calculate_period_dates_call ==
    /\ periods = NoPeriods
    /\ periods' = calculate_period_dates(strptime(reference), BEFORE_PERIOD_DAYS,
                                          AFTER_PERIOD_START_DAYS, AFTER_PERIOD_DAYS)
    /\ UNCHANGED reference
    /\ UNCHANGED <<gwVars, taskVars, profileVars, tagVars, reportVars, rateVars>>

\* HTTP statuses the transport answers with
Statuses == {200, 429, 500}

\* the absent "after" parameter
NoCursor == 0

\* a timestamp that is absent (published_at missing or null)
NoTime == -1

RECURSIVE Concat(_)
\* the concatenation of a sequence of sequences
Concat(ss) == IF Len(ss) = 0 THEN <<>> ELSE Head(ss) \o Concat(Tail(ss))

(***************************************************************************)
(* Report builder (services/report_service.py; app.py generate_report).    *)
(* A value rounded to one decimal place is held in tenths.                 *)
(***************************************************************************)
Abs(x) == IF x < 0 THEN 0 - x ELSE x

\* p / q cut to an integer towards zero
TowardsZero(p, q) ==
    IF p < 0 THEN 0 - (Abs(p) \div q) ELSE p \div q

\* p / q rounded to the nearest integer, q > 0; a tie goes to the even
\* neighbour (round() of an exactly represented float)
Rounded(p, q) ==
    LET a    == Abs(p)
        f    == a \div q
        r    == a % q
        near == IF 2 * r < q THEN f
                ELSE IF 2 * r > q THEN f + 1
                ELSE IF f % 2 = 0 THEN f ELSE f + 1
    IN  IF p < 0 THEN 0 - near ELSE near

\* the percentage cut, not rounded, to one decimal place
percent_truncated(count, total_count) ==
    IF total_count > 0 THEN TowardsZero(count * 1000, total_count) ELSE 0

\* round(count / total_count * 100, 1) if total_count > 0 else 0, in tenths
percent(count, total_count) ==
    IF total_count > 0 THEN Rounded(count * 1000, total_count) ELSE 0

\* round(count / days, 1), in tenths
daily_average(count, days) == Rounded(count * 10, days)

\* organic subscribers floored at zero
organic_count_clamped(total_count, attributed_count) ==
    IF total_count > attributed_count THEN total_count - attributed_count ELSE 0

organic_count(total_count, attributed_count) == total_count - attributed_count

\* f"{n:,}": the sign and the groups of three digits, highest first
RECURSIVE Groups(_)
Groups(a) == IF a < 1000 THEN <<a>> ELSE Append(Groups(a \div 1000), a % 1000)

Commas(n) == [negative |-> n < 0, groups |-> Groups(Abs(n))]

\* dict.get(key, default)
get(dict, key, default) == IF key \in DOMAIN dict THEN dict[key] ELSE default

\* a missing paperboy_start_date reads as None
NoDate == <<>>

Baselines == {0, 2, 41000}
CurrentTotals == {0, 3, 45000}

\* the profiles a client can have: complete, with a start date that is no
\* calendar day, without a baseline, without a start date
ClientProfiles ==
    {[paperboy_start_date |-> d, initial_subscriber_count |-> n] :
        d \in {<<2024, 2, 9>>, <<2024, 2, 30>>}, n \in Baselines}
    \cup {[paperboy_start_date |-> <<2024, 2, 9>>]}
    \cup {[initial_subscriber_count |-> 2]}

\* what the remote answers the builder's gateway calls with: the window's
\* total_count, the tagged listings (each held as the number of its records,
\* all the builder takes of it) and the counts of the two periods; or a
\* transport error out of requests.get
Answers ==
    {[raises |-> FALSE, total_count |-> t, facebook |-> f, creator |-> c, sparkloop |-> k,
      before |-> b, after |-> a] :
        t \in (0..MaxCount) \cup {1000}, f \in (0..MaxCount) \cup {200},
        c \in (0..MaxCount) \cup {100}, k \in (0..MaxCount) \cup {50},
        b \in {0, 61}, a \in {0, 61}}
    \cup {[raises |-> TRUE, total_count |-> 0, facebook |-> 0, creator |-> 0,
            sparkloop |-> 0, before |-> 0, after |-> 0]}

NoneResult == [is_none |-> TRUE]

\* the body of the try block: the report, or the exception it ends with.
\* guarded tells the two variants apart: report_service.py guards the
\* growth rate against a zero baseline, app.py does not.
Build(cd, current_total, ans, guarded) ==
    LET total_count      == ans.total_count
        facebook_count   == ans.facebook
        creator_count    == ans.creator
        sparkloop_count  == ans.sparkloop
        attributed_count == facebook_count + creator_count + sparkloop_count
        organic          == organic_count(total_count, attributed_count)
        start            == get(cd, "paperboy_start_date", NoDate)
        initial_count    == get(cd, "initial_subscriber_count", 0)
        paperboy_start_date == strptime(start)
        pd               == calculate_period_dates(paperboy_start_date, BEFORE_PERIOD_DAYS,
                                                   AFTER_PERIOD_START_DAYS, AFTER_PERIOD_DAYS)
        total_growth     == current_total - initial_count
        paid_count       == facebook_count + sparkloop_count
    IN  IF ans.raises THEN [exception |-> "ConnectionError", report |-> NoneResult]
        ELSE IF start = NoDate THEN [exception |-> "TypeError", report |-> NoneResult]
        ELSE IF ~ValidDate(start) THEN [exception |-> "ValueError", report |-> NoneResult]
        ELSE IF initial_count = 0 /\ ~guarded
        THEN [exception |-> "ZeroDivisionError", report |-> NoneResult]
        ELSE [exception |-> None,
              report |->
                [total_subscribers     |-> total_count,
                 facebook_subscribers  |-> facebook_count,
                 facebook_percent      |-> percent(facebook_count, total_count),
                 creator_subscribers   |-> creator_count,
                 creator_percent       |-> percent(creator_count, total_count),
                 sparkloop_subscribers |-> sparkloop_count,
                 sparkloop_percent     |-> percent(sparkloop_count, total_count),
                 organic_subscribers   |-> organic,
                 organic_percent       |-> percent(organic, total_count),
                 total_growth          |-> Commas(total_growth),
                 growth_rate           |-> IF initial_count > 0
                                           THEN Rounded(total_growth * 1000, initial_count)
                                           ELSE 0,
                 paperboy_start_date   |-> format_date(paperboy_start_date),
                 daily_average_before  |-> daily_average(ans.before, pd.before_days),
                 daily_average_after   |-> daily_average(ans.after, pd.after_days),
                 before_period         |-> <<pd.before_start, pd.before_end>>,
                 after_period          |-> <<pd.after_start, pd.after_end>>,
                 paid_growth_percent   |-> percent(paid_count, total_count),
                 paid_subscribers      |-> paid_count,
                 monthly_growth        |-> <<>>]]

\* the report windows the form can submit as (start_date, end_date): the
\* form accepts any two days, in either order
Windows ==
    {<<<<2024, 1, 1>>, <<2024, 1, 31>>>>, <<<<2024, 1, 31>>, <<2024, 1, 1>>>>}

\* a (start_date, end_date) window handed to a gateway query
Query(name, start_date, end_date) ==
    [name |-> name, start_date |-> start_date, end_date |-> end_date]

\* the gateway queries the try block makes, in order, up to the exception
\* that ends it: the count and the three tagged listings of the report
\* window, then the counts of the before and the after period
GatewayQueries(cd, window, ans) ==
    LET start   == get(cd, "paperboy_start_date", NoDate)
        pd      == calculate_period_dates(strptime(start), BEFORE_PERIOD_DAYS,
                                          AFTER_PERIOD_START_DAYS, AFTER_PERIOD_DAYS)
        first   == <<Query("get_subscribers", window[1], window[2])>>
        tagged  == <<Query("get_tagged_subscribers", window[1], window[2]),
                     Query("get_tagged_subscribers", window[1], window[2]),
                     Query("get_tagged_subscribers", window[1], window[2])>>
    IN  IF ans.raises THEN first
        ELSE IF start = NoDate \/ ~ValidDate(start) THEN first \o tagged
        ELSE first \o tagged \o
             <<Query("get_subscribers", pd.before_start, pd.before_end),
               Query("get_subscribers", pd.after_start, pd.after_end)>>

\* no division was reached
NoDivisors == [before |-> 0, after |-> 0]

\* what the two period counts are divided by: periods['before_days'] and
\* periods['after_days'] in report_service.py, the literal 60 in app.py
Divisors(cd, ans, guarded) ==
    LET start == get(cd, "paperboy_start_date", NoDate)
        pd    == calculate_period_dates(strptime(start), BEFORE_PERIOD_DAYS,
                                        AFTER_PERIOD_START_DAYS, AFTER_PERIOD_DAYS)
    IN  IF ans.raises \/ start = NoDate \/ ~ValidDate(start) THEN NoDivisors
        ELSE IF guarded THEN [before |-> pd.before_days, after |-> pd.after_days]
        ELSE [before |-> 60, after |-> 60]

\* a call together with the gateway queries it made and its divisors
Logged(call, queries, divisors) ==
    [k \in DOMAIN call \cup {"queries", "divisors"} |->
        IF k = "queries" THEN queries
        ELSE IF k = "divisors" THEN divisors
        ELSE call[k]]

NoReportCall == [handler |-> None]

ReportCall(handler, current_total, caught, raised, returned) ==
    [handler       |-> handler,
     current_total |-> current_total,
     caught        |-> caught,
     raised        |-> raised,
     result        |-> returned]

ReportIdle(cd) ==
    /\ client_data = cd
    /\ report_call = NoReportCall

\* ReportService.generate_subscriber_report: except Exception returns None
generate_subscriber_report ==
    /\ report_call = NoReportCall
    /\ \E window \in Windows, current_total \in CurrentTotals, ans \in Answers :
          LET b == Build(client_data, current_total, ans, TRUE)
          IN  report_call' = Logged(ReportCall("generate_subscriber_report", current_total,
                                               b.exception, None, b.report),
                                    GatewayQueries(client_data, window, ans),
                                    Divisors(client_data, ans, TRUE))
    /\ UNCHANGED client_data
    /\ UNCHANGED <<gwVars, taskVars, profileVars, dateVars, tagVars, rateVars>>

\* how the open-rate computation ends: with its statistics, or with an
\* exception out of the gateway calls or the date parsing it makes
OpenRateOutcomes ==
    {[raised |-> FALSE, value |-> "open_rate_stats"],
     [raised |-> TRUE,  value |-> "ConnectionError"],
     [raised |-> TRUE,  value |-> "ValueError"]}

\* report['open_rates'] = open_rate_stats
WithOpenRates(report, stats) ==
    [k \in DOMAIN report \cup {"open_rates"} |->
        IF k = "open_rates" THEN stats ELSE report[k]]

\* ReportService.generate_report_with_open_rates: the subscriber report
\* first; the open-rate computation runs outside any try block
generate_report_with_open_rates ==
    /\ report_call = NoReportCall
    /\ \E window \in Windows, current_total \in CurrentTotals, ans \in Answers,
          o \in OpenRateOutcomes :
          LET b == Build(client_data, current_total, ans, TRUE)
              call ==
                IF b.report = NoneResult
                THEN ReportCall("generate_report_with_open_rates", current_total,
                                b.exception, None, NoneResult)
                ELSE IF o.raised
                THEN ReportCall("generate_report_with_open_rates", current_total,
                                None, o.value, NoneResult)
                ELSE ReportCall("generate_report_with_open_rates", current_total,
                                None, None, WithOpenRates(b.report, o.value))
          IN  report_call' = Logged(call, GatewayQueries(client_data, window, ans),
                                    Divisors(client_data, ans, TRUE))
    /\ UNCHANGED client_data
    /\ UNCHANGED <<gwVars, taskVars, profileVars, dateVars, tagVars, rateVars>>

\* app.py generate_report: the same arithmetic with an unguarded growth rate
generate_report ==
    /\ report_call = NoReportCall
    /\ \E window \in Windows, current_total \in CurrentTotals, ans \in Answers :
          LET b == Build(client_data, current_total, ans, FALSE)
          IN  report_call' = Logged(ReportCall("generate_report", current_total,
                                               b.exception, None, b.report),
                                    GatewayQueries(client_data, window, ans),
                                    Divisors(client_data, ans, FALSE))
    /\ UNCHANGED client_data
    /\ UNCHANGED <<gwVars, taskVars, profileVars, dateVars, tagVars, rateVars>>

(***************************************************************************)
(* Open-rate engine (services/open_rate_service.py).                       *)
(***************************************************************************)
\* a listing: the subscriber records with the given ids, in order
Subs(ids) == [i \in 1..Len(ids) |-> [id |-> ids[i]]]

\* listings the gateway returns (a subscriber may be listed twice)
RecipientListings == {Subs(<<>>), Subs(<<1, 2, 3, 4>>), Subs(<<2, 5, 2>>)}
OpenedListings == {Subs(<<>>), Subs(<<1, 3>>), Subs(<<2, 5>>)}
TaggedListings == {Subs(<<>>), Subs(<<2, 3, 5>>), Subs(<<1, 1, 4>>)}

BroadcastLists ==
    UNION {[1..n -> [recipients : RecipientListings, opened : OpenedListings]] :
            n \in 0..MaxBroadcasts}

\* {sub['id'] for sub in listing}
IdSet(listing) == {listing[i].id : i \in 1..Len(listing)}

\* the recipients counted whether tagged or not
all_ids(ids, tagged_ids) == ids

\* recipient_ids & tagged_subscriber_ids
intersection(ids, tagged_ids) == ids \cap tagged_ids

NoStats == [average_open_rate |-> 0 - 1]

Stats(average_open_rate, total_recipients, total_opens) ==
    [average_open_rate |-> average_open_rate,
     total_recipients  |-> total_recipients,
     total_opens       |-> total_opens]

Locals(position, i, ids, total_tag_recipients, total_tag_opens, returned) ==
    [pc                    |-> position,
     i                     |-> i,
     tagged_subscriber_ids |-> ids,
     total_tag_recipients  |-> total_tag_recipients,
     total_tag_opens       |-> total_tag_opens,
     result                |-> returned]

\* the remote's response to GET broadcasts/<id>/stats: a status and, with
\* 200, the body's broadcast.stats ({} when the body has none)
StatsDicts ==
    {<<>>,
     [recipients |-> 0, opens |-> 0],
     [recipients |-> 3, opens |-> 1],
     [recipients |-> 8, opens |-> 3],
     [recipients |-> 4],
     [open_rate |-> 50]}

StatsResponses ==
    {[status_code |-> 200, stats |-> d] : d \in StatsDicts}
    \cup {[status_code |-> 500, stats |-> <<>>]}

StatsResponseLists == UNION {[1..n -> StatsResponses] : n \in 0..MaxBroadcasts}

\* ConvertKitService.get_broadcast_stats: the stats of a 200 response, else None
get_broadcast_stats(resp) ==
    IF resp.status_code = 200
    THEN [is_none |-> FALSE, stats |-> resp.stats]
    ELSE [is_none |-> TRUE, stats |-> <<>>]

\* every answer taken for statistics
always_truthy(returned) == TRUE

\* if stats: neither None nor {}
truthy(returned) == ~returned.is_none /\ returned.stats # <<>>

OverallStats(average_open_rate, total_broadcasts, total_recipients, total_opens) ==
    [average_open_rate |-> average_open_rate,
     total_broadcasts  |-> total_broadcasts,
     total_recipients  |-> total_recipients,
     total_opens       |-> total_opens]

NoOverallStats == [average_open_rate |-> 0 - 1]

OverallLocals(position, i, total_recipients, total_opens, broadcast_count, returned) ==
    [pc               |-> position,
     i                |-> i,
     total_recipients |-> total_recipients,
     total_opens      |-> total_opens,
     broadcast_count  |-> broadcast_count,
     result           |-> returned]

OverallIdle(sl) ==
    /\ stats_responses = sl
    /\ overall = OverallLocals("idle", 0, 0, 0, 0, NoOverallStats)

\* get_broadcasts and the early return of zeros when it answers no broadcast
overall_open_rate_begin ==
    /\ overall.pc = "idle"
    /\ overall' = IF Len(stats_responses) = 0
                  THEN OverallLocals("done", 0, 0, 0, 0, OverallStats(0, 0, 0, 0))
                  ELSE OverallLocals("loop", 1, 0, 0, 0, NoOverallStats)
    /\ UNCHANGED <<broadcasts, tagged_subscribers, rate, engagement, stats_responses>>
    /\ UNCHANGED <<gwVars, taskVars, profileVars, dateVars, tagVars, reportVars>>

\* one turn of the loop: the broadcast's stats, counted when truthy
overall_open_rate_broadcast ==
    /\ overall.pc = "loop"
    /\ overall.i <= Len(stats_responses)
    /\ LET stats == get_broadcast_stats(stats_responses[overall.i])
       IN  overall' =
             IF truthy(stats)
             THEN [overall EXCEPT
                     !.i = @ + 1,
                     !.total_recipients = @ + get(stats.stats, "recipients", 0),
                     !.total_opens = @ + get(stats.stats, "opens", 0),
                     !.broadcast_count = @ + 1]
             ELSE [overall EXCEPT !.i = @ + 1]
    /\ UNCHANGED <<broadcasts, tagged_subscribers, rate, engagement, stats_responses>>
    /\ UNCHANGED <<gwVars, taskVars, profileVars, dateVars, tagVars, reportVars>>

\* after the loop: the average, guarded against no recipients, and the return
overall_open_rate_return ==
    /\ overall.pc = "loop"
    /\ overall.i > Len(stats_responses)
    /\ overall' = [overall EXCEPT
                     !.pc = "done",
                     !.result = OverallStats(
                         percent(overall.total_opens, overall.total_recipients),
                         overall.broadcast_count, overall.total_recipients,
                         overall.total_opens)]
    /\ UNCHANGED <<broadcasts, tagged_subscribers, rate, engagement, stats_responses>>
    /\ UNCHANGED <<gwVars, taskVars, profileVars, dateVars, tagVars, reportVars>>

\* the pages get_broadcast_subscribers accumulates when its first ok page
\* requests are answered 200 and the next one is not
Fetched(listing, ok) ==
    SubSeq(listing, 1, IF ok * MaxPageLen < Len(listing) THEN ok * MaxPageLen ELSE Len(listing))

\* what the gateway returns for each broadcast of the remote's record e when
\* the recipients call gets oks[i].recipients pages and the opened call
\* oks[i].opened pages
Served(e, oks) ==
    [i \in 1..Len(e) |->
        [recipients |-> Fetched(e[i].recipients, oks[i].recipients),
         opened     |-> Fetched(e[i].opened, oks[i].opened)]]

\* before calculate_open_rate_by_tag: the remote's record e of the
\* broadcasts, and what the gateway answers
TagRateIdle(bl, tl, e) ==
    /\ broadcasts = bl
    /\ tagged_subscribers = tl
    /\ rate = Locals("idle", 0, {}, 0, 0, NoStats)
    /\ engagement = e

\* the gateway answers with the remote's record as it is
RateIdle(bl, tl) ==
    /\ TagRateIdle(bl, tl, bl)
    /\ OverallIdle(<<>>)

\* the calls before the loop: no broadcast, or no tagged subscriber, returns
\* zeros at once
open_rate_by_tag_begin ==
    /\ rate.pc = "idle"
    /\ rate' = IF Len(broadcasts) = 0
               THEN Locals("done", 0, {}, 0, 0, Stats(0, 0, 0))
               ELSE IF IdSet(tagged_subscribers) = {}
               THEN Locals("done", 0, {}, 0, 0, Stats(0, 0, 0))
               ELSE Locals("loop", 1, IdSet(tagged_subscribers), 0, 0, NoStats)
    /\ UNCHANGED <<broadcasts, tagged_subscribers, engagement, stats_responses, overall>>
    /\ UNCHANGED <<gwVars, taskVars, profileVars, dateVars, tagVars, reportVars>>

\* one turn of the loop over the broadcasts
open_rate_by_tag_broadcast ==
    /\ rate.pc = "loop"
    /\ rate.i <= Len(broadcasts)
    /\ LET recipient_ids == IdSet(broadcasts[rate.i].recipients)
           opened_ids    == IdSet(broadcasts[rate.i].opened)
           tag_recipients_for_broadcast == intersection(recipient_ids, rate.tagged_subscriber_ids)
           tag_opens_for_broadcast      == intersection(opened_ids, rate.tagged_subscriber_ids)
       IN  rate' = [rate EXCEPT
                      !.i = @ + 1,
                      !.total_tag_recipients = @ + Cardinality(tag_recipients_for_broadcast),
                      !.total_tag_opens = @ + Cardinality(tag_opens_for_broadcast)]
    /\ UNCHANGED <<broadcasts, tagged_subscribers, engagement, stats_responses, overall>>
    /\ UNCHANGED <<gwVars, taskVars, profileVars, dateVars, tagVars, reportVars>>

\* after the loop: the average, guarded against no recipients, and the return
open_rate_by_tag_return ==
    /\ rate.pc = "loop"
    /\ rate.i > Len(broadcasts)
    /\ rate' = [rate EXCEPT
                  !.pc = "done",
                  !.result = Stats(percent(rate.total_tag_opens, rate.total_tag_recipients),
                                   rate.total_tag_recipients, rate.total_tag_opens)]
    /\ UNCHANGED <<broadcasts, tagged_subscribers, engagement, stats_responses, overall>>
    /\ UNCHANGED <<gwVars, taskVars, profileVars, dateVars, tagVars, reportVars>>

(***************************************************************************)
(* Client-profile store (app.py: oauth_callback, index, save_client_data). *)
(***************************************************************************)
ProfileClients == {"Sieva Kozinsky", "acme"}

\* {}
EmptyDict == <<>>

\* the mapping the module is loaded with
HardCoded ==
    [c \in {"Sieva Kozinsky"} |->
        [paperboy_start_date |-> <<2024, 2, 9>>, initial_subscriber_count |-> 41000]]

NoFile == [exists |-> FALSE, content |-> EmptyDict]

\* the form fields of the client data form; an empty field is falsy
FormDates == {NoDate, <<2024, 3, 1>>}
FormCounts == {<<>>, <<"5">>, <<"1", "2">>, <<"a", "b", "c">>}

DigitValue ==
    [c \in {"0", "1", "2", "3", "4", "5", "6", "7", "8", "9"} |->
        CASE c = "0" -> 0 [] c = "1" -> 1 [] c = "2" -> 2 [] c = "3" -> 3
          [] c = "4" -> 4 [] c = "5" -> 5 [] c = "6" -> 6 [] c = "7" -> 7
          [] c = "8" -> 8 [] c = "9" -> 9]

\* int(str) raises ValueError unless str is a numeral
IsNumeral(str) == Len(str) > 0 /\ \A i \in 1..Len(str) : str[i] \in DOMAIN DigitValue

RECURSIVE int(_)
int(str) ==
    IF Len(str) = 0 THEN 0
    ELSE int(SubSeq(str, 1, Len(str) - 1)) * 10 + DigitValue[str[Len(str)]]

\* dict.update(other)
update(dict, other) ==
    [c \in DOMAIN dict \cup DOMAIN other |-> IF c \in DOMAIN other THEN other[c] ELSE dict[c]]

\* dict[key] = value
assign(dict, key, value) ==
    [c \in DOMAIN dict \cup {key} |-> IF c = key THEN value ELSE dict[c]]

\* save_client_data: json.dump(CLIENT_DATA) into client_data.json; when the
\* file cannot be opened the exception is caught and the file stays as it was
save_client_data(mapping, file, ok) ==
    IF ok THEN [exists |-> TRUE, content |-> mapping] ELSE file

Request(handler, client, saved) ==
    [handler |-> handler, client |-> client, saved |-> saved]

ProfilesIdle ==
    /\ CLIENT_DATA = HardCoded
    /\ client_data_file = NoFile
    /\ session = None
    /\ last_request = Request(None, None, FALSE)

\* the module is loaded again (the process restarts): CLIENT_DATA is the
\* hard-coded mapping; the file and the clients' session cookies stay
module_load ==
    /\ CLIENT_DATA' = HardCoded
    /\ last_request' = Request("module_load", None, FALSE)
    /\ UNCHANGED <<client_data_file, session>>
    /\ UNCHANGED <<gwVars, taskVars, dateVars, tagVars, reportVars, rateVars>>

\* oauth_callback with an account response of 200: the file is loaded over
\* CLIENT_DATA, a client not in it gets an empty profile, which is saved
oauth_callback ==
    \E client_name \in ProfileClients, ok \in BOOLEAN :
        LET loaded == IF client_data_file.exists
                      THEN update(CLIENT_DATA, client_data_file.content)
                      ELSE CLIENT_DATA
        IN  /\ IF client_name \notin DOMAIN loaded
               THEN /\ CLIENT_DATA' = assign(loaded, client_name, EmptyDict)
                    /\ client_data_file' = save_client_data(CLIENT_DATA', client_data_file, ok)
               ELSE /\ CLIENT_DATA' = loaded
                    /\ UNCHANGED client_data_file
            /\ session' = client_name
            /\ last_request' = Request("oauth_callback", client_name, FALSE)
            /\ UNCHANGED <<gwVars, taskVars, dateVars, tagVars, reportVars, rateVars>>

\* index, POST of the client data form: saved when both fields are filled
\* in and the count is a numeral, otherwise only a message is flashed
index_client_data_form ==
    /\ session # None
    /\ \E paperboy_start_date \in FormDates, initial_subscriber_count \in FormCounts,
          ok \in BOOLEAN :
          IF paperboy_start_date # NoDate /\ initial_subscriber_count # <<>>
             /\ IsNumeral(initial_subscriber_count)
          THEN /\ CLIENT_DATA' =
                    assign(CLIENT_DATA, session,
                           [paperboy_start_date      |-> paperboy_start_date,
                            initial_subscriber_count |-> int(initial_subscriber_count)])
               /\ client_data_file' = save_client_data(CLIENT_DATA', client_data_file, ok)
               /\ last_request' = Request("index", session, TRUE)
          ELSE /\ UNCHANGED <<CLIENT_DATA, client_data_file>>
               /\ last_request' = Request("index", session, FALSE)
    /\ UNCHANGED session
    /\ UNCHANGED <<gwVars, taskVars, dateVars, tagVars, reportVars, rateVars>>

CalcIdle ==
    /\ DatesIdle(<<2024, 2, 9>>)
    /\ TagsIdle(<<>>)
    /\ ReportIdle([paperboy_start_date |-> <<2024, 2, 9>>, initial_subscriber_count |-> 2])
    /\ RateIdle(<<>>, <<>>)
    /\ ProfilesIdle

(***************************************************************************)
(* The remote platform (the API surface the gateway consumes).             *)
(***************************************************************************)
\* the pages of a listing whose i-th page holds lens[i] records; records are
\* identified by their position
MkPages(lens) ==
    [i \in 1..Len(lens) |-> [j \in 1..lens[i] |-> (i - 1) * MaxPageLen + j]]

Remotes ==
    { [pages |-> MkPages(lens), total_count |-> tc] :
        lens \in UNION { [1..n -> 0..MaxPageLen] : n \in 1..MaxPages },
        tc \in 0..MaxTotal }

\* the opaque cursor naming the end of page k
Cursor(k) == 100 + k

\* the page a request with the given "after" parameter is answered with
PageIndexAfter(after) == IF after = NoCursor THEN 1 ELSE (after - 100) + 1

\* the listing as paginated for a requested page size: per_page = 1 gives one
\* record per page, PER_PAGE_PARAM the remote's own pages
Listing(r, per_page) ==
    IF per_page >= MaxPageLen
    THEN r.pages
    ELSE LET all == Concat(r.pages)
         IN  IF Len(all) = 0 THEN << <<>> >>
             ELSE [i \in 1..Len(all) |-> <<all[i]>>]

\* the body of a 200 response: {records, pagination: {total_count, has_next_page, end_cursor}}
Body(r, p) ==
    LET pages == Listing(r, p.per_page)
        k     == PageIndexAfter(p.after)
    IN  [records       |-> IF k \in 1..Len(pages) THEN pages[k] ELSE <<>>,
         total_count   |-> r.total_count,
         has_next_page |-> k < Len(pages),
         end_cursor    |-> Cursor(k)]

NoBody == [records |-> <<>>, total_count |-> 0, has_next_page |-> FALSE, end_cursor |-> NoCursor]

\* the publish timestamp of broadcast b (absent for every fourth broadcast)
PublishedAt(b) == IF b % 4 = 0 THEN NoTime ELSE b - 1

(***************************************************************************)
(* _rate_limited_request                                                   *)
(***************************************************************************)
\* mutant: one attempt too many (range(MAX_RETRIES + 1))
LoopContinuesOffByOne(a) == a <= MAX_RETRIES

\* for attempt in range(MAX_RETRIES)
LoopContinues(a) == a < MAX_RETRIES

\* mutant: the backoff counted from zero (RETRY_DELAY * attempt)
BackoffDelayFromZero(a) == RETRY_DELAY * a

\* time.sleep(RETRY_DELAY * (attempt + 1))
BackoffDelay(a) == RETRY_DELAY * (a + 1)

\* entering _rate_limited_request with the given parameters
StartRequest(p) ==
    /\ params' = p
    /\ attempt' = 0
    /\ reqStatuses' = <<>>
    /\ reqSleeps' = <<>>
    /\ pc' = IF LoopContinues(0) THEN "get" ELSE "handle"

\* response = requests.get(url, headers, params); a 429 goes on to the
\* backoff sleep, any other response is returned
requests_get ==
    /\ pc = "get"
    /\ \E s \in Statuses :
        /\ response' = [status |-> s, body |-> IF s = 200 THEN Body(remote, params) ELSE NoBody]
        /\ reqStatuses' = Append(reqStatuses, s)
        /\ pc' = IF s = 429 THEN "sleep" ELSE "handle"
    /\ UNCHANGED <<remote, op, args, attempt, params, data, acc, result, reqSleeps, pageLog, obs>>
    /\ UNCHANGED <<taskVars, calcVars>>

\* time.sleep(...); continue: the next attempt, or the return of the last
\* response once the loop is exhausted
time_sleep ==
    /\ pc = "sleep"
    /\ reqSleeps' = Append(reqSleeps, BackoffDelay(attempt))
    /\ attempt' = attempt + 1
    /\ pc' = IF LoopContinues(attempt + 1) THEN "get" ELSE "handle"
    /\ UNCHANGED <<remote, op, args, response, params, data, acc, result, reqStatuses, pageLog, obs>>
    /\ UNCHANGED <<taskVars, calcVars>>

(***************************************************************************)
(* Gateway operations                                                      *)
(***************************************************************************)
ListResult(l) == [kind |-> "list", list |-> l, count |-> 0]
CountResult(n) == [kind |-> "count", list |-> <<>>, count |-> n]
NoResult == [kind |-> "none", list |-> <<>>, count |-> 0]

NoArgs == [count_only |-> FALSE, tag_id |-> 0, start_date |-> 0, end_date |-> 0]

PagingOps == {"get_subscribers", "get_tagged_subscribers", "get_broadcast_subscribers",
              "get_broadcasts"}
CountOps == {"get_subscribers_count", "get_current_total_subscribers",
             "get_subscriber_count_at_date"}

\* an operation begins: its locals are set and its first request is issued
Begin(o, a, per_page) ==
    /\ pc = "idle"
    /\ op' = o
    /\ args' = a
    /\ acc' = <<>>
    /\ data' = NoBody
    /\ result' = NoResult
    /\ pageLog' = <<>>
    /\ response' = [status |-> 0, body |-> NoBody]
    /\ StartRequest([per_page |-> per_page, after |-> NoCursor])
    /\ UNCHANGED <<remote, obs>>
    /\ UNCHANGED <<taskVars, calcVars>>

\* get_subscribers(start_date, end_date, count_only)
get_subscribers_call ==
    \E c \in BOOLEAN :
        Begin(IF c THEN "get_subscribers_count" ELSE "get_subscribers",
              [NoArgs EXCEPT !.count_only = c],
              IF c THEN 1 ELSE PER_PAGE_PARAM)

\* get_tagged_subscribers(tag_id, start_date, end_date): a falsy tag id
\* returns [] without a request
get_tagged_subscribers_call ==
    \E t \in {0, 7} :
        IF t = 0
        THEN /\ pc = "idle"
             /\ op' = "get_tagged_subscribers"
             /\ args' = [NoArgs EXCEPT !.tag_id = t]
             /\ acc' = <<>>
             /\ data' = NoBody
             /\ result' = ListResult(<<>>)
             /\ pageLog' = <<>>
             /\ reqStatuses' = <<>>
             /\ reqSleeps' = <<>>
             /\ attempt' = 0
             /\ response' = [status |-> 0, body |-> NoBody]
             /\ params' = [per_page |-> PER_PAGE_PARAM, after |-> NoCursor]
             /\ pc' = "done"
             /\ UNCHANGED <<remote, obs>>
             /\ UNCHANGED <<taskVars, calcVars>>
        ELSE Begin("get_tagged_subscribers", [NoArgs EXCEPT !.tag_id = t], PER_PAGE_PARAM)

\* get_broadcast_subscribers(broadcast_id, filter_type)
get_broadcast_subscribers_call ==
    Begin("get_broadcast_subscribers", NoArgs, PER_PAGE_PARAM)

\* get_current_total_subscribers()
get_current_total_subscribers_call ==
    Begin("get_current_total_subscribers", NoArgs, 1)

\* get_subscriber_count_at_date(date)
get_subscriber_count_at_date_call ==
    Begin("get_subscriber_count_at_date", NoArgs, 1)

\* get_broadcasts(start_date, end_date)
get_broadcasts_call ==
    \E s \in 0..MaxDay, e \in 0..MaxDay :
        Begin("get_broadcasts", [NoArgs EXCEPT !.start_date = s, !.end_date = e],
              PER_PAGE_PARAM)

\* datetime.strptime(date, '%Y-%m-%d'): midnight of the day
Strptime(day) == day * TicksPerDay

\* the client-side date filter of get_broadcasts:
\* published_at and start_dt <= broadcast_dt <= end_dt
InDateRange(b, a) ==
    /\ PublishedAt(b) # NoTime
    /\ Strptime(a.start_date) <= PublishedAt(b)
    /\ PublishedAt(b) <= Strptime(a.end_date)

\* the records of a page an operation keeps
Kept(o, a, recs) ==
    IF o = "get_broadcasts"
    THEN SelectSeq(recs, LAMBDA b : InDateRange(b, a))
    ELSE recs

\* mutant: the count taken from the records of the page instead of the metadata
CountOnlyValueOfPage(body) == Len(body.records)

\* total_count = data.get('pagination', {}).get('total_count', 0)
CountOnlyValue(body) == body.total_count

\* mutant: the follow-up pages are never fetched
HasNextPageNever(body) == FALSE

\* the loop goes on whatever the page says
HasNextPageAlways(body) == TRUE

\* the while condition: data.get('pagination', {}).get('has_next_page')
HasNextPage(body) == body.has_next_page

\* params['after'] = data['pagination']['end_cursor']
NextAfter(body) == body.end_cursor

\* if response.status_code == 200
ResponseOk(resp) == resp.status = 200

\* the entry a finished rate-limited request leaves in the history
LogEntry == [after |-> params.after, status |-> response.status,
             end_cursor |-> response.body.end_cursor]

\* mutant: a failed count reported as -1
FailedCountMinusOne(resp) == 0 - 1

\* return 0: the value of a count operation whose request failed
FailedCount(resp) == 0

\* mutant: the partial list is dropped when a page fails
ErrorResultDropped(l) == <<>>

\* break; return subscribers: the value of a paginating operation whose page
\* request failed is the list accumulated so far
ErrorResult(l) == l

\* a count operation reads its one response: total_count on 200, else 0
count_response ==
    /\ pc = "handle"
    /\ op \in CountOps
    /\ pageLog' = Append(pageLog, LogEntry)
    /\ IF ResponseOk(response)
       THEN /\ data' = response.body
            /\ result' = CountResult(CountOnlyValue(response.body))
       ELSE /\ data' = data
            /\ result' = CountResult(FailedCount(response))
    /\ pc' = "done"
    /\ UNCHANGED <<remote, op, args, attempt, response, params, acc, reqStatuses, reqSleeps, obs>>
    /\ UNCHANGED <<taskVars, calcVars>>

\* a paginating operation reads a page response: on 200 it extends the list
\* and follows the cursor while has_next_page; otherwise it stops with the
\* records accumulated so far
page_response ==
    /\ pc = "handle"
    /\ op \in PagingOps
    /\ pageLog' = Append(pageLog, LogEntry)
    /\ IF ResponseOk(response)
       THEN /\ data' = response.body
            /\ acc' = acc \o Kept(op, args, response.body.records)
            /\ IF HasNextPage(response.body)
               THEN /\ StartRequest([params EXCEPT !.after = NextAfter(response.body)])
                    /\ result' = result
               ELSE /\ pc' = "done"
                    /\ result' = ListResult(acc')
                    /\ UNCHANGED <<attempt, params, reqStatuses, reqSleeps>>
       ELSE /\ data' = data
            /\ acc' = acc
            /\ pc' = "done"
            /\ result' = ListResult(ErrorResult(acc))
            /\ UNCHANGED <<attempt, params, reqStatuses, reqSleeps>>
    /\ UNCHANGED <<remote, op, args, response, obs>>
    /\ UNCHANGED <<taskVars, calcVars>>

\* whether every request of the finished operation was answered 200
AllOk == \A i \in 1..Len(pageLog) : pageLog[i].status = 200

NoObs == [done |-> FALSE, value |-> 0]

\* the operation returns to its caller and its locals are gone; the value a
\* get_subscribers call returned when every request was answered 200 is kept
Return ==
    /\ pc = "done"
    /\ pc' = "idle"
    /\ obs' = IF op = "get_subscribers_count" /\ AllOk
              THEN [obs EXCEPT !.count = [done |-> TRUE, value |-> result.count]]
              ELSE IF op = "get_subscribers" /\ AllOk
              THEN [obs EXCEPT !.list = [done |-> TRUE, value |-> Len(result.list)]]
              ELSE obs
    /\ op' = "idle"
    /\ args' = NoArgs
    /\ attempt' = 0
    /\ response' = [status |-> 0, body |-> NoBody]
    /\ params' = [per_page |-> PER_PAGE_PARAM, after |-> NoCursor]
    /\ data' = NoBody
    /\ acc' = <<>>
    /\ result' = NoResult
    /\ reqStatuses' = <<>>
    /\ reqSleeps' = <<>>
    /\ pageLog' = <<>>
    /\ UNCHANGED remote
    /\ UNCHANGED <<taskVars, calcVars>>

\* the gateway's state before any operation, for a given remote
GatewayIdle(r) ==
    /\ remote = r
    /\ op = "idle"
    /\ args = NoArgs
    /\ pc = "idle"
    /\ attempt = 0
    /\ response = [status |-> 0, body |-> NoBody]
    /\ params = [per_page |-> PER_PAGE_PARAM, after |-> NoCursor]
    /\ data = NoBody
    /\ acc = <<>>
    /\ result = NoResult
    /\ reqStatuses = <<>>
    /\ reqSleeps = <<>>
    /\ pageLog = <<>>
    /\ obs = [count |-> NoObs, list |-> NoObs]

(***************************************************************************)
(* Background task runner (services/background_tasks.py)                   *)
(***************************************************************************)
Clients == {"acme", "beta"}

\* what the open-rate computation returns, and the messages it raises with
Payloads == {"rates_a", "rates_b"}
Messages == {"boom", "bad tag"}

\* datetime.now().strftime("%Y%m%d_%H%M%S"): the clock cut to whole seconds
Timestamp(t) == t \div TicksPerSecond

\* f"{client_name}_{timestamp}"
TaskId(c, t) == <<c, Timestamp(t)>>

TaskIds == { TaskId(c, t) : c \in Clients, t \in 0..MaxClock }

\* the record save_task_status serialises
StatusRecord(id, status, d, e, now) ==
    [task_id |-> id, status |-> status, updated_at |-> now, data |-> d, error |-> e]

NoRecord == StatusRecord(<<None, 0>>, None, None, None, 0)

\* the states of a status file: missing, opened for writing (truncated, not
\* yet written), holding a record
Missing == [exists |-> FALSE, valid |-> FALSE, rec |-> NoRecord]
Truncated == [exists |-> TRUE, valid |-> FALSE, rec |-> NoRecord]
Holding(r) == [exists |-> TRUE, valid |-> TRUE, rec |-> r]

NoOutcome == [raised |-> FALSE, value |-> None]

TasksIdle ==
    /\ clock = 0
    /\ calls = <<>>
    /\ store = [id \in TaskIds |-> Missing]
    /\ history = [id \in TaskIds |-> <<>>]
    /\ lastWritten = <<>>

\* time passes
Tick ==
    /\ clock < MaxClock
    /\ clock' = clock + 1
    /\ UNCHANGED <<calls, store, history, lastWritten>>
    /\ UNCHANGED <<gwVars, calcVars>>

\* generate_task_id(client_name)
generate_task_id ==
    /\ Len(calls) < MaxTasks
    /\ \E c \in Clients :
        calls' = Append(calls, [client |-> c, task_id |-> TaskId(c, clock),
                                state |-> "generated", outcome |-> NoOutcome])
    /\ lastWritten' = Append(lastWritten, NoRecord)
    /\ UNCHANGED <<clock, store, history>>
    /\ UNCHANGED <<gwVars, calcVars>>

\* run_open_rate_calculation(task_id, ...): the worker thread is started and
\* the task id is returned to the caller
run_open_rate_calculation ==
    /\ \E i \in 1..Len(calls) :
        /\ calls[i].state = "generated"
        /\ calls' = [calls EXCEPT ![i].state = "started"]
    /\ UNCHANGED <<clock, store, history, lastWritten>>
    /\ UNCHANGED <<gwVars, calcVars>>

\* save_task_status, first half: open(filepath, 'w') truncates the file
SaveOpen(id) ==
    /\ store' = [store EXCEPT ![id] = Truncated]
    /\ UNCHANGED <<history, lastWritten>>

\* save_task_status, second half: json.dump(result, f) and close
SaveDump(i, rec) ==
    /\ store' = [store EXCEPT ![rec.task_id] = Holding(rec)]
    /\ history' = [history EXCEPT ![rec.task_id] = Append(@, rec.status)]
    /\ lastWritten' = [lastWritten EXCEPT ![i] = rec]

\* cls.save_task_status(task_id, 'processing')
ProcessingRecord(id, now) == StatusRecord(id, "processing", None, None, now)

\* cls.save_task_status(task_id, 'completed', data=result)
CompletedRecord(id, res, now) == StatusRecord(id, "completed", res, None, now)

\* str(e)
Str(e) == e.value

\* cls.save_task_status(task_id, 'failed', error=str(e))
FailedRecord(id, e, now) == StatusRecord(id, "failed", None, Str(e), now)

\* the worker ends with another processing record
FinalRecordStillProcessing(id, o, now) == ProcessingRecord(id, now)

\* mutant: the except branch is missing, every task ends completed
FinalRecordAlwaysCompleted(id, o, now) == CompletedRecord(id, o.value, now)

\* the record _run ends with: completed with the result, or failed with the
\* message of the exception caught
FinalRecord(id, o, now) ==
    IF o.raised THEN FailedRecord(id, o, now) ELSE CompletedRecord(id, o.value, now)

\* _run: save_task_status(task_id, 'processing') opens the file
run_open_processing ==
    /\ \E i \in 1..Len(calls) :
        /\ calls[i].state = "started"
        /\ calls' = [calls EXCEPT ![i].state = "opening"]
        /\ SaveOpen(calls[i].task_id)
    /\ UNCHANGED clock
    /\ UNCHANGED <<gwVars, calcVars>>

\* _run: save_task_status(task_id, 'processing') writes the record
run_save_processing ==
    /\ \E i \in 1..Len(calls) :
        /\ calls[i].state = "opening"
        /\ calls' = [calls EXCEPT ![i].state = "processing"]
        /\ SaveDump(i, ProcessingRecord(calls[i].task_id, clock))
    /\ UNCHANGED clock
    /\ UNCHANGED <<gwVars, calcVars>>

\* what calculate_open_rates_for_multiple_tags can do: return a result or raise
Outcomes == [raised : {FALSE}, value : Payloads] \cup [raised : {TRUE}, value : Messages]

\* _run: calculate_open_rates_for_multiple_tags returns or raises (it touches
\* no state of the runner), and the final save_task_status opens the file
run_calculate ==
    /\ \E i \in 1..Len(calls) :
        /\ calls[i].state = "processing"
        /\ \E o \in Outcomes :
            calls' = [calls EXCEPT ![i].state = "closing", ![i].outcome = o]
        /\ SaveOpen(calls[i].task_id)
    /\ UNCHANGED clock
    /\ UNCHANGED <<gwVars, calcVars>>

\* _run: the final save_task_status writes completed or failed; the thread ends
run_save_final ==
    /\ \E i \in 1..Len(calls) :
        /\ calls[i].state = "closing"
        /\ calls' = [calls EXCEPT ![i].state = "done"]
        /\ SaveDump(i, FinalRecord(calls[i].task_id, calls[i].outcome, clock))
    /\ UNCHANGED clock
    /\ UNCHANGED <<gwVars, calcVars>>

\* the key a returned dict does not hold
Absent == "absent"

\* tasks/open_rate_tasks.py, calculate_open_rates_by_tag: the Celery variant
\* of the worker returns its final record instead of writing it
calculate_open_rates_by_tag(o) ==
    IF o.raised
    THEN [status |-> "failed", error |-> Str(o), data |-> Absent]
    ELSE [status |-> "completed", data |-> o.value, error |-> Absent]

\* whether run_open_rate_calculation has returned invocation i's id to its caller
Returned(i) == calls[i].state # "generated"

\* get_task_status(task_id): None when the file is missing, else json.load of
\* it, which raises on a file that is open for writing and still empty. The
\* call changes nothing: this is what it returns in the current state
get_task_status(id) ==
    LET f == store[id]
    IN  [kind |-> IF ~f.exists THEN "none"
                  ELSE IF ~f.valid THEN "decode_error"
                  ELSE "record",
         rec  |-> f.rec]

InitTasks ==
    /\ TasksIdle
    /\ GatewayIdle(CHOOSE r \in Remotes : TRUE)
    /\ CalcIdle

NextTasks ==
    \/ Tick
    \/ generate_task_id
    \/ run_open_rate_calculation
    \/ run_open_processing
    \/ run_save_processing
    \/ run_calculate
    \/ run_save_final

SpecTasks == InitTasks /\ [][NextTasks]_vars

\* the steps of the worker threads (threading.Thread(target=_run), started)
WorkerStep ==
    \/ run_open_processing
    \/ run_save_processing
    \/ run_calculate
    \/ run_save_final

\* the worker threads are scheduled fairly
SpecTasksFair == SpecTasks /\ WF_vars(WorkerStep)

(***************************************************************************)
(* Specifications                                                          *)
(***************************************************************************)
InitGateway ==
    /\ \E r \in Remotes : GatewayIdle(r)
    /\ TasksIdle
    /\ CalcIdle

NextGateway ==
    \/ get_subscribers_call
    \/ get_tagged_subscribers_call
    \/ get_broadcast_subscribers_call
    \/ get_current_total_subscribers_call
    \/ get_subscriber_count_at_date_call
    \/ get_broadcasts_call
    \/ requests_get
    \/ time_sleep
    \/ count_response
    \/ page_response
    \/ Return

SpecGateway == InitGateway /\ [][NextGateway]_vars

\* the operation in progress runs on: requests.get answers, time.sleep ends,
\* the response is handled
GatewayStep ==
    \/ requests_get
    \/ time_sleep
    \/ count_response
    \/ page_response

SpecGatewayFair == SpecGateway /\ WF_vars(GatewayStep)

(***************************************************************************)
(* Properties of the gateway (checked under SpecGateway).                  *)
(***************************************************************************)
Last(q) == q[Len(q)]

\* the operations that return every record of every page
ListingOps == {"get_subscribers", "get_tagged_subscribers", "get_broadcast_subscribers"}

\* the records of the first n pages of the remote's listing, as operation o keeps them
FirstPages(o, a, n) ==
    LET all == Concat(SubSeq(remote.pages, 1, n))
    IN  IF o = "get_broadcasts"
        THEN SelectSeq(all, LAMBDA b : /\ PublishedAt(b) # NoTime
                                       /\ a.start_date * TicksPerDay <= PublishedAt(b)
                                       /\ PublishedAt(b) <= a.end_date * TicksPerDay)
        ELSE all

\* C1: one rate-limited request issues at most 3 GETs; every GET before the
\* last was answered 429 (nothing is requested after a non-429 answer); the
\* response returned is the last one received, and a returned 429 is the
\* third one.
C1_RateLimitedRequest ==
    /\ Len(reqStatuses) <= 3
    /\ \A i \in 1..(Len(reqStatuses) - 1) : reqStatuses[i] = 429
    /\ pc = "handle" =>
        /\ Len(reqStatuses) >= 1
        /\ response.status = Last(reqStatuses)
        /\ response.status = 429 => Len(reqStatuses) = 3

\* C1 witness: a request whose three attempts were all answered 429 has returned
C1_Witness ==
    /\ pc = "handle"
    /\ reqStatuses = <<429, 429, 429>>
    /\ response.status = 429

\* C2: the k-th backoff sleep of a request lasts RETRY_DELAY * k = k units, and
\* answers 429, 429, 200 give exactly the sleeps 1, 2 and return the 200.
C2_LinearBackoff ==
    /\ \A k \in 1..Len(reqSleeps) : reqSleeps[k] = RETRY_DELAY * k /\ reqSleeps[k] = k
    /\ (pc = "handle" /\ reqStatuses = <<429, 429, 200>>) =>
        /\ reqSleeps = <<1, 2>>
        /\ response.status = 200

\* C2 witness: a request answered 429, 429, 200 has returned
C2_Witness ==
    /\ pc = "handle"
    /\ reqStatuses = <<429, 429, 200>>
    /\ Len(reqSleeps) = 2

\* C3: when every page request is answered 200, a listing operation returns
\* the concatenation of the remote's pages in page order after one request
\* per page, and each follow-up request carries the end_cursor of the
\* previous response (the first request carries none).
C3_PaginationConcat ==
    /\ (op \in ListingOps /\ pc \in {"get", "sleep", "handle"}) =>
        params.after = IF Len(pageLog) = 0 THEN NoCursor ELSE Last(pageLog).end_cursor
    /\ op \in ListingOps =>
        \A i \in 1..Len(pageLog) :
            pageLog[i].after = IF i = 1 THEN NoCursor ELSE pageLog[i - 1].end_cursor
    /\ (op \in ListingOps /\ pc = "done" /\ Len(pageLog) >= 1 /\ AllOk) =>
        /\ result = ListResult(Concat(remote.pages))
        /\ Len(pageLog) = Len(remote.pages)

\* C3 witness: a tagged-subscriber listing of two non-empty pages was fetched whole
C3_Witness ==
    /\ op = "get_tagged_subscribers"
    /\ pc = "done"
    /\ AllOk
    /\ Len(pageLog) = 2
    /\ Len(remote.pages[1]) >= 1
    /\ Len(remote.pages[2]) >= 1
    /\ Len(result.list) = Len(remote.pages[1]) + Len(remote.pages[2])

\* C4: a page request that ends non-200 is the operation's last request, and
\* the operation returns exactly the records of the pages fetched before it
\* (the empty list when the first page fails).
C4_PartialOnError ==
    /\ (op \in PagingOps /\ pc \in {"get", "sleep", "handle"}) =>
        \A i \in 1..Len(pageLog) : pageLog[i].status = 200
    /\ (op \in PagingOps /\ pc = "done") =>
        \A i \in 1..(Len(pageLog) - 1) : pageLog[i].status = 200
    /\ (op \in PagingOps /\ pc = "done" /\ Len(pageLog) >= 1 /\ Last(pageLog).status # 200) =>
        /\ result = ListResult(FirstPages(op, args, Len(pageLog) - 1))
        /\ Len(pageLog) = 1 => result.list = <<>>

\* C4 witness: the second page of a subscriber listing failed with 429 after
\* the retries and the first page's records were returned
C4_Witness ==
    /\ op = "get_subscribers"
    /\ pc = "done"
    /\ Len(pageLog) = 2
    /\ pageLog[2].status = 429
    /\ result.list = remote.pages[1]
    /\ Len(result.list) >= 1

\* C5: an operation whose request is answered non-200 returns the empty list
\* (list operations) or 0 (count operations), and it does return.
C5_NonOkIsEmpty ==
    (pc = "done" /\ Len(pageLog) >= 1 /\ pageLog[1].status # 200) =>
        /\ Len(pageLog) = 1
        /\ op \in PagingOps => result = ListResult(<<>>)
        /\ op \in CountOps => result = CountResult(0)
        /\ op \in PagingOps \cup CountOps

\* C5 witness: a count request on a remote with subscribers was answered 500
C5_Witness ==
    /\ op = "get_current_total_subscribers"
    /\ pc = "done"
    /\ pageLog[1].status = 500
    /\ remote.total_count > 0
    /\ result.count = 0

\* C6: on a remote whose total_count equals its number of subscribers, the
\* count-only call and the length of the fully paginated list agree (both
\* calls with every request answered 200).
C6_CountOnlyMatchesList ==
    (obs.count.done /\ obs.list.done /\ remote.total_count = Len(Concat(remote.pages))) =>
        obs.count.value = obs.list.value

\* C6 witness: both calls finished on a remote of two pages holding three or more subscribers
C6_Witness ==
    /\ obs.count.done
    /\ obs.list.done
    /\ remote.total_count = Len(Concat(remote.pages))
    /\ Len(remote.pages) = 2
    /\ obs.list.value >= 3

\* the calendar day of a publish timestamp
DayOf(t) == t \div TicksPerDay

\* the pages of the finished operation that were answered 200
PagesFetched == Cardinality({i \in 1..Len(pageLog) : pageLog[i].status = 200})

\* C22: get_broadcasts returns, in fetch order over all pages, exactly the
\* fetched broadcasts whose publish timestamp falls on a calendar day of the
\* inclusive window (start_date 00:00:00 through end_date 23:59:59);
\* broadcasts without a publish timestamp are excluded.
C22_BroadcastWindow ==
    (op = "get_broadcasts" /\ pc = "done") =>
        result.list =
            SelectSeq(Concat(SubSeq(remote.pages, 1, PagesFetched)),
                      LAMBDA b : /\ PublishedAt(b) # NoTime
                                 /\ args.start_date <= DayOf(PublishedAt(b))
                                 /\ DayOf(PublishedAt(b)) <= args.end_date)

\* C25: every backoff sleep of the rate-limited request is followed by another
\* attempt of the same request before the call returns, and one call never
\* sleeps more often than the retry ceiling.
C25_SleepThenRetry ==
    pc = "handle" =>
        /\ Len(reqSleeps) < Len(reqStatuses)
        /\ Len(reqSleeps) <= MAX_RETRIES

\* the pages the remote serves a paginating operation
PagesServed == Len(Listing(remote, PER_PAGE_PARAM))

\* page requests are issued one per page, each after a 200 page that has a
\* next page; an operation whose pages were all served has asked for each once
PageRequestsBounded ==
    op \in PagingOps =>
        /\ Len(pageLog) <= PagesServed
        /\ \A i \in 1..(Len(pageLog) - 1) : pageLog[i].status = 200 /\ i < PagesServed
        /\ (pc \in {"get", "sleep", "handle"} /\ Len(pageLog) > 0) =>
              (pageLog[Len(pageLog)].status = 200 /\ Len(pageLog) < PagesServed)
        /\ (pc = "done" /\ Len(pageLog) > 0 /\ AllOk) => Len(pageLog) = PagesServed

\* C26: a paginating operation stops issuing page requests as soon as a
\* response has has_next_page false or a non-200 status, and so returns on a
\* remote that serves finitely many pages: after exactly N page requests (429
\* retries not counted) on a remote with N pages.
C26_PagingTerminates ==
    /\ []PageRequestsBounded
    /\ (op \in PagingOps) ~> (pc = "done")

\* a two-page listing fetched with two page requests
C26_Witness ==
    /\ op \in PagingOps
    /\ pc = "done"
    /\ PagesServed = 2
    /\ Len(pageLog) = 2
    /\ AllOk

\* a listing of two pages left after a failed first page request
C26_WitnessStopped ==
    /\ op \in PagingOps
    /\ pc = "done"
    /\ PagesServed = 2
    /\ Len(pageLog) = 1
    /\ pageLog[1].status = 500

(***************************************************************************)
(* Properties of the background task runner (checked under SpecTasks).     *)
(***************************************************************************)
TaskStatuses == {"pending", "processing", "completed", "failed"}

\* C7: the statuses written under a task id are pending, then processing,
\* then exactly one of completed or failed: at every moment the statuses
\* written so far are a prefix of such a sequence, and the whole sequence
\* once the task's worker has ended.
C7_Lifecycle ==
    /\ \A id \in TaskIds :
        LET h == history[id]
        IN  /\ Len(h) <= 3
            /\ Len(h) >= 1 => h[1] = "pending"
            /\ Len(h) >= 2 => h[2] = "processing"
            /\ Len(h) >= 3 => h[3] \in {"completed", "failed"}
    /\ \A i \in 1..Len(calls) :
        calls[i].state = "done" => Len(history[calls[i].task_id]) = 3

\* C8: any two invocations of generate_task_id return different identifiers.
C8_UniqueTaskIds ==
    \A i, j \in 1..Len(calls) : i # j => calls[i].task_id # calls[j].task_id

\* C9: once run_open_rate_calculation has returned the task id, polling
\* get_task_status with it returns a record whose status is one of pending,
\* processing, completed, failed.
C9_PollReturnsRecord ==
    \A i \in 1..Len(calls) :
        Returned(i) =>
            LET r == get_task_status(calls[i].task_id)
            IN  /\ r.kind = "record"
                /\ r.rec.status \in TaskStatuses

\* C10: the last record a worker writes is failed, with the exception's
\* message as error and data None, when the computation raised, and
\* completed, with the result as data and error None, when it returned; it
\* is the record polled under the task's id when no other task shares the id.
\* The Celery variant of the worker returns the same status and payload.
C10_FinalRecord ==
    /\ \A i \in 1..Len(calls) :
        calls[i].state = "done" =>
            LET r == lastWritten[i]
                o == calls[i].outcome
            IN  /\ r.task_id = calls[i].task_id
                /\ o.raised => (r.status = "failed" /\ r.error = o.value /\ r.data = None)
                /\ ~o.raised => (r.status = "completed" /\ r.data = o.value /\ r.error = None)
                /\ (\A j \in 1..Len(calls) : j # i => calls[j].task_id # calls[i].task_id) =>
                       /\ get_task_status(calls[i].task_id).kind = "record"
                       /\ get_task_status(calls[i].task_id).rec = r
    /\ \A o \in Outcomes :
        LET r == calculate_open_rates_by_tag(o)
        IN  /\ o.raised => (r.status = "failed" /\ r.error = o.value)
            /\ ~o.raised => (r.status = "completed" /\ r.data = o.value)

\* C10 witness: one task has ended failed with the message "boom" and another
\* completed with a result, each polled under its own id
C10_Witness ==
    /\ Len(calls) = 2
    /\ calls[1].state = "done"
    /\ calls[2].state = "done"
    /\ calls[1].task_id # calls[2].task_id
    /\ calls[1].outcome = [raised |-> TRUE, value |-> "boom"]
    /\ calls[2].outcome = [raised |-> FALSE, value |-> "rates_b"]
    /\ get_task_status(calls[1].task_id).rec.status = "failed"
    /\ get_task_status(calls[1].task_id).rec.error = "boom"
    /\ get_task_status(calls[2].task_id).rec.status = "completed"
    /\ get_task_status(calls[2].task_id).rec.data = "rates_b"

\* the file of a task id holds a completed or failed record
Terminal(id) == store[id].valid /\ store[id].rec.status \in {"completed", "failed"}

\* C27: terminal task states are absorbing: once the record stored under a
\* task id is completed or failed, no later write changes it, under every
\* interleaving of tasks (several tasks of one client included).
C27_TerminalAbsorbing ==
    [][\A id \in TaskIds : Terminal(id) => store'[id] = store[id]]_vars

\* C28: every task started with run_open_rate_calculation eventually has a
\* status record completed or failed, when the worker thread is scheduled
\* fairly and the computation returns or raises; none stays in processing.
C28_EventuallyTerminal ==
    \A i \in 1..MaxTasks :
        (Len(calls) >= i /\ calls[i].state = "started")
            ~> (/\ Len(calls) >= i
                /\ calls[i].state = "done"
                /\ lastWritten[i].status \in {"completed", "failed"}
                /\ Terminal(calls[i].task_id))

\* two tasks of one client have both ended, one failed and one completed
C28_Witness ==
    /\ Len(calls) = 2
    /\ calls[1].state = "done"
    /\ calls[2].state = "done"
    /\ calls[1].client = calls[2].client
    /\ calls[1].outcome.raised
    /\ ~calls[2].outcome.raised
    /\ Terminal(calls[1].task_id)
    /\ Terminal(calls[2].task_id)

(***************************************************************************)
(* Period derivation specification.                                        *)
(***************************************************************************)
InitDates ==
    /\ \E s \in ReferenceDates : DatesIdle(s)
    /\ TagsIdle(<<>>)
    /\ ReportIdle([paperboy_start_date |-> <<2024, 2, 9>>, initial_subscriber_count |-> 2])
    /\ RateIdle(<<>>, <<>>)
    /\ ProfilesIdle
    /\ GatewayIdle(CHOOSE r \in Remotes : TRUE)
    /\ TasksIdle

NextDates ==
    \/ calculate_period_dates_call

SpecDates == InitDates /\ [][NextDates]_vars

(***************************************************************************)
(* Properties of the period derivation (checked under SpecDates).          *)
(***************************************************************************)
\* the calendar, one day at a time
MonthLength(y, m) ==
    CASE m \in {1, 3, 5, 7, 8, 10, 12} -> 31
      [] m \in {4, 6, 9, 11} -> 30
      [] OTHER -> IF (y % 4 = 0 /\ y % 100 # 0) \/ y % 400 = 0 THEN 29 ELSE 28

FirstOfNextMonth(s) ==
    IF s[2] < 12 THEN <<s[1], s[2] + 1, 1>> ELSE <<s[1] + 1, 1, 1>>

\* the date n days after s: within the month when it fits, otherwise on from
\* the first of the next month
RECURSIVE DaysLater(_, _)
DaysLater(s, n) ==
    IF s[3] + n <= MonthLength(s[1], s[2])
    THEN <<s[1], s[2], s[3] + n>>
    ELSE DaysLater(FirstOfNextMonth(s), n - (MonthLength(s[1], s[2]) - s[3] + 1))

Earlier(s, t) ==
    \/ s[1] < t[1]
    \/ s[1] = t[1] /\ s[2] < t[2]
    \/ s[1] = t[1] /\ s[2] = t[2] /\ s[3] < t[3]

\* C15: the before window is [d - 60 days, d] and the after window is
\* [d + 45 days, d + 105 days] as calendar dates; for d = 2024-02-09 they are
\* 2023-12-11..2024-02-09 and 2024-03-25..2024-05-24; the before window ends
\* before the after window starts.
C15_PeriodWindows ==
    periods # NoPeriods =>
        /\ DaysLater(periods.before_start, 60) = reference
        /\ periods.before_end = reference
        /\ periods.after_start = DaysLater(reference, 45)
        /\ periods.after_end = DaysLater(reference, 105)
        /\ Earlier(periods.before_end, periods.after_start)
        /\ reference = <<2024, 2, 9>> =>
              /\ periods.before_start = <<2023, 12, 11>>
              /\ periods.before_end = <<2024, 2, 9>>
              /\ periods.after_start = <<2024, 3, 25>>
              /\ periods.after_end = <<2024, 5, 24>>

\* the windows of 2024-02-09 have been derived
C15_Witness ==
    /\ reference = <<2024, 2, 9>>
    /\ periods # NoPeriods
    /\ periods.after_end = <<2024, 5, 24>>

(***************************************************************************)
(* Tag resolution specification.                                           *)
(***************************************************************************)
InitTags ==
    /\ \E names \in TagLists : TagsIdle(Tags(names))
    /\ DatesIdle(<<2024, 2, 9>>)
    /\ ReportIdle([paperboy_start_date |-> <<2024, 2, 9>>, initial_subscriber_count |-> 2])
    /\ RateIdle(<<>>, <<>>)
    /\ ProfilesIdle
    /\ GatewayIdle(CHOOSE r \in Remotes : TRUE)
    /\ TasksIdle

NextTags ==
    \/ _find_closest_tag_call
    \/ get_all_tags_call

SpecTags == InitTags /\ [][NextTags]_vars

(***************************************************************************)
(* Properties of the tag resolution (checked under SpecTags).              *)
(***************************************************************************)
\* tag t of the list carries variation number v of the category
Carries(t, tag_type, v) == in(TAG_VARIATIONS[tag_type][v], lower(t.name))

\* the numbers of the category's variations that some tag of the list carries
Carried(tl, tag_type) ==
    {v \in 1..Len(TAG_VARIATIONS[tag_type]) : \E i \in 1..Len(tl) : Carries(tl[i], tag_type, v)}

Least(S) == CHOOSE x \in S : \A y \in S : x <= y

\* C16: the resolver returns a tag that matches the earliest variant, in the
\* category's ordered list, that is a substring of some tag's lower-cased
\* name, whatever the order of the tag list.
C16_EarliestVariantWins ==
    (found # NoFound /\ Carried(found.tags, found.tag_type) # {}) =>
        \E i \in 1..Len(found.tags) :
            /\ found.tags[i].id = found.id
            /\ Carries(found.tags[i], found.tag_type, Least(Carried(found.tags, found.tag_type)))

\* a later tag of the list carries an earlier variant than the first tag does,
\* and the resolver has returned the later tag
C16_Witness ==
    /\ found # NoFound
    /\ Len(found.tags) = 2
    /\ Carried(<<found.tags[1]>>, found.tag_type) # {}
    /\ Carried(<<found.tags[2]>>, found.tag_type) # {}
    /\ Least(Carried(<<found.tags[2]>>, found.tag_type)) < Least(Carried(<<found.tags[1]>>, found.tag_type))
    /\ found.id = found.tags[2].id

\* C17: when one or more tags contain the winning variant, the resolver returns
\* the id of the first such tag in the order of the remote list, also when tag
\* names are not distinct after lower-casing.
C17_FirstTagInListOrder ==
    (found # NoFound /\ Carried(found.tags, found.tag_type) # {}) =>
        found.id = found.tags[Least({i \in 1..Len(found.tags) :
                        Carries(found.tags[i], found.tag_type,
                                Least(Carried(found.tags, found.tag_type)))})].id

\* C18: for each category and every tag list the resolver returns a tag id of
\* the list when some variant matches, otherwise exactly the category's default
\* (4155625, 4090509, 5023500); the tag list is left unchanged.
C18_MatchedOrDefault ==
    found # NoFound =>
        /\ Carried(found.tags, found.tag_type) # {} =>
              \E i \in 1..Len(found.tags) : found.tags[i].id = found.id
        /\ Carried(found.tags, found.tag_type) = {} =>
              found.id = (CASE found.tag_type = "facebook"  -> 4155625
                            [] found.tag_type = "creator"   -> 4090509
                            [] found.tag_type = "sparkloop" -> 5023500)
        /\ tags = found.tags

\* no tag of a non-empty list carries a creator variant: the creator default
C18_Witness ==
    /\ found # NoFound
    /\ found.tag_type = "creator"
    /\ Len(found.tags) > 0
    /\ found.id = 4090509

\* C19: for every outcome of the tags request, the result of get_all_tags
\* contains a suggested tag id for each of facebook, creator and sparkloop.
C19_AlwaysSuggests ==
    all_tags # NoAllTags =>
        \A tag_type \in Categories : tag_type \in DOMAIN all_tags.result.suggested

(***************************************************************************)
(* Report builder specification.                                           *)
(***************************************************************************)
InitReport ==
    /\ \E cd \in ClientProfiles : ReportIdle(cd)
    /\ DatesIdle(<<2024, 2, 9>>)
    /\ TagsIdle(<<>>)
    /\ RateIdle(<<>>, <<>>)
    /\ ProfilesIdle
    /\ GatewayIdle(CHOOSE r \in Remotes : TRUE)
    /\ TasksIdle

NextReport ==
    \/ generate_subscriber_report
    \/ generate_report_with_open_rates
    \/ generate_report

SpecReport == InitReport /\ [][NextReport]_vars

(***************************************************************************)
(* Properties of the report builder (checked under SpecReport).            *)
(***************************************************************************)
ReportFields ==
    {"total_subscribers", "facebook_subscribers", "facebook_percent",
     "creator_subscribers", "creator_percent", "sparkloop_subscribers",
     "sparkloop_percent", "organic_subscribers", "organic_percent",
     "total_growth", "growth_rate", "paperboy_start_date", "daily_average_before",
     "daily_average_after", "before_period", "after_period",
     "paid_growth_percent", "paid_subscribers", "monthly_growth"}

\* a call has returned a report
Reported == report_call # NoReportCall /\ report_call.result # NoneResult

\* C11: generate_subscriber_report and generate_report_with_open_rates return
\* a complete report or None: no exception (bad date, missing profile field,
\* failure inside the open-rate computation) leaves them, none gives a
\* partial report.
C11_ReportOrNone ==
    (report_call # NoReportCall /\ report_call.handler # "generate_report") =>
        /\ report_call.raised = None
        /\ \/ report_call.result = NoneResult
           \/ /\ report_call.handler = "generate_subscriber_report"
              /\ DOMAIN report_call.result = ReportFields
           \/ /\ report_call.handler = "generate_report_with_open_rates"
              /\ DOMAIN report_call.result = ReportFields \cup {"open_rates"}

\* C12: organic_subscribers is total_subscribers minus the three tagged
\* counts, exactly; it is never clamped and is negative when the tagged counts
\* exceed the total.
C12_OrganicExact ==
    Reported =>
        LET r == report_call.result
        IN  /\ r.organic_subscribers =
                 r.total_subscribers
                   - (r.facebook_subscribers + r.creator_subscribers + r.sparkloop_subscribers)
            /\ (r.facebook_subscribers + r.creator_subscribers + r.sparkloop_subscribers
                   > r.total_subscribers) => r.organic_subscribers < 0

\* a report whose tagged counts exceed its total
C12_Witness ==
    /\ Reported
    /\ report_call.result.total_subscribers = 1
    /\ report_call.result.facebook_subscribers = 2
    /\ report_call.result.organic_subscribers < 0

\* p is value * 100 / total to one decimal place, in tenths
NearestTenth(p, value, total) == 2 * Abs(p * total - 1000 * value) <= total

\* C13: paid_subscribers is facebook plus sparkloop, creator excluded; each
\* percentage is round(count / total * 100, 1) when the total is positive and
\* 0 when it is 0 (the report is still produced); 1000 / 200 / 100 / 50 give
\* organic 650, 20.0 %, 65.0 %, paid 250 and 25.0 %.
C13_PaidAndPercents ==
    Reported =>
        LET r == report_call.result
            total == r.total_subscribers
            Pct(p, count) == IF total > 0 THEN NearestTenth(p, count, total) ELSE p = 0
        IN  /\ r.paid_subscribers = r.facebook_subscribers + r.sparkloop_subscribers
            /\ Pct(r.facebook_percent, r.facebook_subscribers)
            /\ Pct(r.creator_percent, r.creator_subscribers)
            /\ Pct(r.sparkloop_percent, r.sparkloop_subscribers)
            /\ Pct(r.organic_percent, r.organic_subscribers)
            /\ Pct(r.paid_growth_percent, r.paid_subscribers)
            /\ (/\ total = 1000
                /\ r.facebook_subscribers = 200
                /\ r.creator_subscribers = 100
                /\ r.sparkloop_subscribers = 50) =>
                    /\ r.organic_subscribers = 650
                    /\ r.facebook_percent = 200
                    /\ r.organic_percent = 650
                    /\ r.paid_subscribers = 250
                    /\ r.paid_growth_percent = 250

\* the report of the example
C13_Witness ==
    /\ Reported
    /\ report_call.result.total_subscribers = 1000
    /\ report_call.result.facebook_subscribers = 200
    /\ report_call.result.creator_subscribers = 100
    /\ report_call.result.sparkloop_subscribers = 50
    /\ report_call.result.paid_growth_percent = 250

\* a report produced with a total of 0 and tagged subscribers
C13_WitnessZeroTotal ==
    /\ Reported
    /\ report_call.result.total_subscribers = 0
    /\ report_call.result.facebook_subscribers = 2
    /\ report_call.result.facebook_percent = 0

\* the number a comma-grouped rendering stands for
RECURSIVE GroupsValue(_)
GroupsValue(g) ==
    IF Len(g) = 0 THEN 0 ELSE GroupsValue(SubSeq(g, 1, Len(g) - 1)) * 1000 + g[Len(g)]

CommasValue(c) == IF c.negative THEN 0 - GroupsValue(c.groups) ELSE GroupsValue(c.groups)

\* the call got its gateway answers and a profile with a parsable start date
Buildable ==
    /\ report_call # NoReportCall
    /\ report_call.raised = None
    /\ report_call.caught \notin {"ConnectionError", "TypeError", "ValueError"}

\* C14: in every variant of the report builder total_growth is current_total
\* minus the baseline and growth_rate is round(total_growth / baseline * 100, 1)
\* (41000 -> 45000 gives 4000 and 9.8); with a baseline of 0 the division is
\* guarded and the report is still produced, with growth_rate 0.
C14_GrowthGuarded ==
    Buildable =>
        LET baseline == IF "initial_subscriber_count" \in DOMAIN client_data
                        THEN client_data.initial_subscriber_count ELSE 0
            r == report_call.result
        IN  /\ r # NoneResult
            /\ CommasValue(r.total_growth) = report_call.current_total - baseline
            /\ baseline > 0 =>
                  NearestTenth(r.growth_rate, report_call.current_total - baseline, baseline)
            /\ baseline = 0 => r.growth_rate = 0
            /\ (baseline = 41000 /\ report_call.current_total = 45000) =>
                  /\ CommasValue(r.total_growth) = 4000
                  /\ r.growth_rate = 98

\* C23: every (start_date, end_date) window the report builder passes to a
\* gateway query has end_date >= start_date, whatever the report request:
\* the window the user submitted and the derived before and after windows.
C23_WindowsOrdered ==
    report_call # NoReportCall =>
        \A i \in 1..Len(report_call.queries) :
            strptime(report_call.queries[i].end_date)
                >= strptime(report_call.queries[i].start_date)

\* the calendar days a count query covers: start_date T00:00:00Z through
\* end_date T23:59:59Z, both end days included
DaysCovered(q) == strptime(q.end_date) - strptime(q.start_date) + 1

\* the call made the count queries of the before and the after period
PeriodsCounted == report_call # NoReportCall /\ Len(report_call.queries) = 6

\* C30: for the before and for the after period, the divisor of the daily
\* average is the number of calendar days the period's count query covers.
C30_DivisorIsDaysCovered ==
    PeriodsCounted =>
        /\ report_call.divisors.before = DaysCovered(report_call.queries[5])
        /\ report_call.divisors.after = DaysCovered(report_call.queries[6])

(***************************************************************************)
(* Open-rate engine specification.                                         *)
(***************************************************************************)
InitRate ==
    /\ \E bl \in BroadcastLists, tl \in TaggedListings : RateIdle(bl, tl)
    /\ ProfilesIdle
    /\ DatesIdle(<<2024, 2, 9>>)
    /\ TagsIdle(<<>>)
    /\ ReportIdle([paperboy_start_date |-> <<2024, 2, 9>>, initial_subscriber_count |-> 2])
    /\ GatewayIdle(CHOOSE r \in Remotes : TRUE)
    /\ TasksIdle

NextRate ==
    \/ open_rate_by_tag_begin
    \/ open_rate_by_tag_broadcast
    \/ open_rate_by_tag_return

SpecRate == InitRate /\ [][NextRate]_vars

(***************************************************************************)
(* Properties of the open-rate engine (checked under SpecRate).            *)
(***************************************************************************)
\* the tagged subscribers listed in a listing, each once
TaggedIn(listing) ==
    {x \in 1..6 : /\ \E i \in 1..Len(listing) : listing[i].id = x
                  /\ \E j \in 1..Len(tagged_subscribers) : tagged_subscribers[j].id = x}

RECURSIVE SumRecipients(_)
SumRecipients(n) ==
    IF n = 0 THEN 0
    ELSE SumRecipients(n - 1) + Cardinality(TaggedIn(broadcasts[n].recipients))

RECURSIVE SumOpens(_)
SumOpens(n) ==
    IF n = 0 THEN 0
    ELSE SumOpens(n - 1) + Cardinality(TaggedIn(broadcasts[n].opened))

\* C20: calculate_open_rate_by_tag returns total_recipients as the sum over
\* the broadcasts of |recipients(b) /\ T|, total_opens as the sum of
\* |opened(b) /\ T|, and average_open_rate as round(opens / recipients * 100, 1),
\* or 0 without recipients; recipients {1,2,3,4}, opens {1,3} and T = {2,3,5}
\* contribute 2 and 1.
C20_OpenRateByTag ==
    rate.result # NoStats =>
        /\ rate.result.total_recipients = SumRecipients(Len(broadcasts))
        /\ rate.result.total_opens = SumOpens(Len(broadcasts))
        /\ IF rate.result.total_recipients > 0
           THEN NearestTenth(rate.result.average_open_rate,
                             rate.result.total_opens, rate.result.total_recipients)
           ELSE rate.result.average_open_rate = 0
        /\ (/\ Len(broadcasts) = 1
            /\ broadcasts[1].recipients = Subs(<<1, 2, 3, 4>>)
            /\ broadcasts[1].opened = Subs(<<1, 3>>)
            /\ tagged_subscribers = Subs(<<2, 3, 5>>)) =>
                /\ rate.result.total_recipients = 2
                /\ rate.result.total_opens = 1
                /\ rate.result.average_open_rate = 500

\* the example, computed through the loop
C20_Witness ==
    /\ rate.pc = "done"
    /\ Len(broadcasts) = 1
    /\ broadcasts[1].recipients = Subs(<<1, 2, 3, 4>>)
    /\ broadcasts[1].opened = Subs(<<1, 3>>)
    /\ tagged_subscribers = Subs(<<2, 3, 5>>)
    /\ rate.result.total_recipients = 2
    /\ rate.result.total_opens = 1

(***************************************************************************)
(* Open-rate engine over a remote whose calls can fail.                    *)
(***************************************************************************)
\* how many page requests of each get_broadcast_subscribers call are answered 200
FetchOutcomes(n) == [1..n -> [recipients : 0..MaxPages, opened : 0..MaxPages]]

InitRateRemote ==
    /\ \E e \in BroadcastLists, tl \in TaggedListings :
          \E oks \in FetchOutcomes(Len(e)) : TagRateIdle(Served(e, oks), tl, e)
    /\ OverallIdle(<<>>)
    /\ ProfilesIdle
    /\ DatesIdle(<<2024, 2, 9>>)
    /\ TagsIdle(<<>>)
    /\ ReportIdle([paperboy_start_date |-> <<2024, 2, 9>>, initial_subscriber_count |-> 2])
    /\ GatewayIdle(CHOOSE r \in Remotes : TRUE)
    /\ TasksIdle

SpecRateRemote == InitRateRemote /\ [][NextRate]_vars

\* on the remote, whoever opened a broadcast received it
OpenedAmongRecipients ==
    \A i \in 1..Len(engagement) :
        IdSet(engagement[i].opened) \subseteq IdSet(engagement[i].recipients)

\* C29: on a remote where each broadcast's openers are among its recipients,
\* the result of calculate_open_rate_by_tag has total_opens <= total_recipients
\* and average_open_rate <= 100, whatever the statuses of the gateway calls.
C29_OpensWithinRecipients ==
    (OpenedAmongRecipients /\ rate.pc = "done") =>
        /\ rate.result.total_opens <= rate.result.total_recipients
        /\ rate.result.average_open_rate <= 1000

(***************************************************************************)
(* Overall open-rate specification.                                        *)
(***************************************************************************)
InitOverall ==
    /\ \E sl \in StatsResponseLists : OverallIdle(sl)
    /\ TagRateIdle(<<>>, <<>>, <<>>)
    /\ ProfilesIdle
    /\ DatesIdle(<<2024, 2, 9>>)
    /\ TagsIdle(<<>>)
    /\ ReportIdle([paperboy_start_date |-> <<2024, 2, 9>>, initial_subscriber_count |-> 2])
    /\ GatewayIdle(CHOOSE r \in Remotes : TRUE)
    /\ TasksIdle

NextOverall ==
    \/ overall_open_rate_begin
    \/ overall_open_rate_broadcast
    \/ overall_open_rate_return

SpecOverall == InitOverall /\ [][NextOverall]_vars

(***************************************************************************)
(* Properties of the overall open rate (checked under SpecOverall).        *)
(***************************************************************************)
\* the window's broadcasts whose stats call returned non-empty stats
WithStats ==
    {i \in 1..Len(stats_responses) :
        stats_responses[i].status_code = 200 /\ DOMAIN stats_responses[i].stats # {}}

\* the field of broadcast i's stats, 0 when the stats have no such field
Field(i, name) ==
    IF name \in DOMAIN stats_responses[i].stats THEN stats_responses[i].stats[name] ELSE 0

RECURSIVE SumField(_, _)
SumField(is, name) ==
    IF is = {} THEN 0
    ELSE LET i == CHOOSE j \in is : TRUE
         IN  Field(i, name) + SumField(is \ {i}, name)

\* C21: calculate_overall_open_rate returns total_recipients and total_opens
\* as the sums over the window's broadcasts whose stats call returned
\* non-empty stats, total_broadcasts as the number of those (a failed stats
\* call contributes nothing), and average_open_rate as
\* round(opens / recipients * 100, 1) if recipients > 0, else 0.
C21_OverallOpenRate ==
    overall.pc = "done" =>
        /\ overall.result.total_recipients = SumField(WithStats, "recipients")
        /\ overall.result.total_opens = SumField(WithStats, "opens")
        /\ overall.result.total_broadcasts = Cardinality(WithStats)
        /\ IF overall.result.total_recipients > 0
           THEN NearestTenth(overall.result.average_open_rate,
                             overall.result.total_opens, overall.result.total_recipients)
           ELSE overall.result.average_open_rate = 0

\* two broadcasts with statistics and one failed stats call in between:
\* 4 opens of 11 recipients is 36.4 percent
C21_Witness ==
    /\ overall.pc = "done"
    /\ \E i \in 1..Len(stats_responses) : stats_responses[i].status_code # 200
    /\ overall.result.total_broadcasts = 1
    /\ overall.result.total_recipients = 8
    /\ overall.result.total_opens = 3
    /\ overall.result.average_open_rate = 375

(***************************************************************************)
(* Client-profile store specification.                                     *)
(***************************************************************************)
InitProfiles ==
    /\ ProfilesIdle
    /\ DatesIdle(<<2024, 2, 9>>)
    /\ TagsIdle(<<>>)
    /\ ReportIdle([paperboy_start_date |-> <<2024, 2, 9>>, initial_subscriber_count |-> 2])
    /\ RateIdle(<<>>, <<>>)
    /\ GatewayIdle(CHOOSE r \in Remotes : TRUE)
    /\ TasksIdle

NextProfiles ==
    \/ module_load
    \/ oauth_callback
    \/ index_client_data_form

SpecProfiles == InitProfiles /\ [][NextProfiles]_vars

(***************************************************************************)
(* Properties of the client-profile store (checked under SpecProfiles).    *)
(***************************************************************************)
\* the store: the file's mapping laid over CLIENT_DATA, as a login loads it
Stored(mapping, file) ==
    IF file.exists THEN update(mapping, file.content) ELSE mapping

\* a client's stored profile: <<profile>>, or <<>> when the store has none
StoredProfile(mapping, file, c) ==
    IF c \in DOMAIN Stored(mapping, file) THEN <<Stored(mapping, file)[c]>> ELSE <<>>

\* C24: a client's stored profile changes only through an explicit save for
\* that client: a login creates an empty profile only for an identity the
\* store does not hold, a login of a known client leaves every stored
\* profile as it was, and so does a profile submission with a non-numeric
\* baseline.
C24_ProfileFrame ==
    [][\A c \in ProfileClients :
          StoredProfile(CLIENT_DATA', client_data_file', c)
              # StoredProfile(CLIENT_DATA, client_data_file, c)
          => \/ /\ last_request'.handler = "index"
                /\ last_request'.client = c
                /\ last_request'.saved
             \/ /\ last_request'.handler = "oauth_callback"
                /\ last_request'.client = c
                /\ StoredProfile(CLIENT_DATA, client_data_file, c) = <<>>
                /\ StoredProfile(CLIENT_DATA', client_data_file', c) = <<EmptyDict>>]_vars

====
